---- MODULE Spec2Model ----
(***************************************************************************)
(* A model of paradocs, the extractor that turns a rendered rustdoc page   *)
(* (an already parsed DOM) into a Document.  The recognisers are pure      *)
(* functions over DOM nodes; they are modelled as operators, each for-loop *)
(* as a recursive operator over the child index, and parse_document as a   *)
(* step machine over its cursor.                                           *)
(***************************************************************************)
EXTENDS Integers, Sequences, FiniteSets, TLC

VARIABLES
    input,            \* the DOM handed to the operation under test
    pc,               \* position of the running operation
    out,              \* Option of the operation's result
    panicked,         \* TRUE once the operation has hit an index panic
    children,         \* parse_document: number of nodes taken from main.children()
    fqn,              \* parse_document: Option of the parsed title
    maybe_decl,       \* parse_document: Option of the index probed as declaration
    declaration,      \* parse_document: Option of the declaration text runs
    maybe_item_info,  \* parse_document: Option of the index probed as item-info
    item_info,        \* parse_document: Option of the parsed ItemInfo
    maybe_top_doc     \* parse_document: Option of the index probed as top-doc

vars == <<input, pc, out, panicked, children, fqn, maybe_decl, declaration,
          maybe_item_info, item_info, maybe_top_doc>>

docLocals == <<children, fqn, maybe_decl, declaration, maybe_item_info,
               item_info, maybe_top_doc>>

(***************************************************************************)
(* Bounds of the explored inputs.                                          *)
(***************************************************************************)
MaxNodes == 3
MaxShallow == 2
MaxSlots == 3
MaxBlockKids == 3
MaxCells == 3
MaxRows == 3
MaxListingNodes == 3
MaxDetailKids == 3
MaxLeftKids == 3
MaxItemKids == 3
MaxImplKids == 3

(***************************************************************************)
(* Option<T>: None is the empty sequence, Some(v) the one-element one.     *)
(***************************************************************************)
None == <<>>
Some(v) == <<v>>
IsSome(o) == o /= <<>>
IsNone(o) == o = <<>>
Unwrap(o) == o[1]
\* Option::or
OrOpt(a, b) == IF IsSome(a) THEN a ELSE b

(***************************************************************************)
(* DOM nodes (scraper::Node inside an ego_tree::NodeRef): a text node, an  *)
(* element with a tag name, a class set, attributes and ordered children,  *)
(* or any other node kind (comment).  The attributes of an element are a   *)
(* map from qualified names; attrs is that map in its iteration order, one *)
(* <<namespace, local name, value>> per entry, the namespace "" for a      *)
(* plain HTML attribute.                                                   *)
(***************************************************************************)
TextNode(s) ==
    [kind |-> "text", name |-> "", classes |-> {}, attrs |-> <<>>,
     text |-> s, children |-> <<>>]
CommentNode ==
    [kind |-> "comment", name |-> "", classes |-> {}, attrs |-> <<>>,
     text |-> "", children |-> <<>>]
Element(name, classes, attrs, kids) ==
    [kind |-> "element", name |-> name, classes |-> classes, attrs |-> attrs,
     text |-> "", children |-> kids]

as_element(node) == node.kind = "element"
has_class(node, class) == class \in node.classes
\* Element::attr: the value stored under the name of no namespace, if the
\* element carries it
attr(node, key) ==
    IF \E i \in DOMAIN node.attrs : node.attrs[i][1] = "" /\ node.attrs[i][2] = key
    THEN Some(node.attrs[CHOOSE i \in DOMAIN node.attrs :
                             node.attrs[i][1] = "" /\ node.attrs[i][2] = key][3])
    ELSE None
RECURSIVE attrs_find_map(_, _, _)
\* Element::attrs().find_map(|(key, value)| (key == "href").then(|| value)):
\* attrs() yields the local name of each entry, whatever its namespace, and
\* find_map stops at the first entry that matches
attrs_find_map(attrs, i, key) ==
    IF i > Len(attrs) THEN None
    ELSE IF attrs[i][2] = key THEN Some(attrs[i][3])
    ELSE attrs_find_map(attrs, i + 1, key)
first_child(node) ==
    IF Len(node.children) = 0 THEN None ELSE Some(node.children[1])

(***************************************************************************)
(* TextPart and TextStyle.                                                 *)
(***************************************************************************)
Link(href) == [style |-> "Link", href |-> href]
Bold == [style |-> "Bold", href |-> None]
Italic == [style |-> "Italic", href |-> None]
Underline == [style |-> "Underline", href |-> None]
Strikethrough == [style |-> "Strikethrough", href |-> None]
Monospaced == [style |-> "Monospaced", href |-> None]
NoStyle == [style |-> "", href |-> None]

Text(s) == [part |-> "Text", text |-> s, style |-> NoStyle]
BeginStyle(style) == [part |-> "BeginStyle", text |-> "", style |-> style]
EndStyle == [part |-> "EndStyle", text |-> "", style |-> NoStyle]

(***************************************************************************)
(* lib.rs: parse_text_inside and its inner parse_text_to.                  *)
(***************************************************************************)
RECURSIVE lib_parse_text_to(_, _), lib_parse_text_loop(_, _, _)

\* one styled arm: push BeginStyle, recurse, push EndStyle
lib_styled(child, buffer, style) ==
    Append(lib_parse_text_to(child, Append(buffer, BeginStyle(style))), EndStyle)

\* the body of the for loop for one child
lib_parse_text_child(child, buffer) ==
    IF child.kind = "text" THEN Append(buffer, Text(child.text))
    ELSE IF child.kind = "element" THEN
        CASE child.name = "a" -> lib_styled(child, buffer, Link(attrs_find_map(child.attrs, 1, "href")))
          [] child.name = "strong" -> lib_styled(child, buffer, Bold)
          [] child.name = "em" -> lib_styled(child, buffer, Italic)
          [] child.name = "u" -> lib_styled(child, buffer, Underline)
          [] child.name = "del" -> lib_styled(child, buffer, Strikethrough)
          [] child.name = "code" -> lib_styled(child, buffer, Monospaced)
          [] child.name = "br" -> Append(buffer, Text("\n"))
          [] child.name = "span" ->
                lib_parse_text_to(child,
                    IF has_class(child, "fmt-newline")
                    THEN Append(buffer, Text("\n")) ELSE buffer)
          [] child.name = "p" -> lib_parse_text_to(child, buffer)
          [] OTHER -> buffer
    ELSE buffer

lib_parse_text_loop(kids, i, buffer) ==
    IF i > Len(kids) THEN buffer
    ELSE lib_parse_text_loop(kids, i + 1, lib_parse_text_child(kids[i], buffer))

lib_parse_text_to(node, buffer) == lib_parse_text_loop(node.children, 1, buffer)

lib_parse_text_inside(node) == lib_parse_text_to(node, <<>>)

(***************************************************************************)
(* atom.rs: parse_text_outside, parse_text_inside and their buffer forms.  *)
(***************************************************************************)
RECURSIVE parse_text_outside_to(_, _), parse_text_inside_loop(_, _, _)

parse_text_inside_to(node, buffer) == parse_text_inside_loop(node.children, 1, buffer)

\* a mutant of parse_text_outside_to: every element but br is recursed into
parse_text_outside_to_deep(node, buffer) ==
    IF node.kind = "text" THEN Append(buffer, Text(node.text))
    ELSE IF node.kind = "element" /\ node.name = "br" THEN Append(buffer, Text("\n"))
    ELSE IF node.kind = "element" THEN parse_text_inside_to(node, buffer)
    ELSE buffer

\* a mutant of styled: the closing marker is forgotten
styled_unclosed(node, buffer, style) ==
    parse_text_inside_to(node, Append(buffer, BeginStyle(style)))

\* one styled arm: push BeginStyle, recurse, push EndStyle
styled(node, buffer, style) ==
    Append(parse_text_inside_to(node, Append(buffer, BeginStyle(style))), EndStyle)

parse_text_outside_to(node, buffer) ==
    IF node.kind = "text" THEN Append(buffer, Text(node.text))
    ELSE IF node.kind = "element" THEN
        CASE node.name = "a" -> styled(node, buffer, Link(attr(node, "href")))
          [] node.name = "strong" -> styled(node, buffer, Bold)
          [] node.name = "em" -> styled(node, buffer, Italic)
          [] node.name = "u" -> styled(node, buffer, Underline)
          [] node.name = "del" -> styled(node, buffer, Strikethrough)
          [] node.name = "code" -> styled(node, buffer, Monospaced)
          [] node.name = "br" -> Append(buffer, Text("\n"))
          [] node.name = "span" ->
                parse_text_inside_to(node,
                    IF has_class(node, "fmt-newline")
                    THEN Append(buffer, Text("\n")) ELSE buffer)
          [] node.name = "p" -> parse_text_inside_to(node, buffer)
          [] OTHER -> buffer
    ELSE buffer

parse_text_inside_loop(kids, i, buffer) ==
    IF i > Len(kids) THEN buffer
    ELSE parse_text_inside_loop(kids, i + 1, parse_text_outside_to(kids[i], buffer))

parse_text_outside(node) == parse_text_outside_to(node, <<>>)

parse_text_inside(node) == parse_text_inside_to(node, <<>>)

(***************************************************************************)
(* A call either returns its value or panics (an index out of bounds).     *)
(***************************************************************************)
Returned(v) == [panic |-> FALSE, value |-> v]
Panic == [panic |-> TRUE, value |-> None]

\* str::starts_with
starts_with(name, prefix) ==
    Len(name) >= Len(prefix) /\ SubSeq(name, 1, Len(prefix)) = prefix
\* name.as_bytes()[i], for i inside the name
byte_at(name, i) == SubSeq(name, i + 1, i + 1)
\* the bytes b'2'..=b'6'
HeadingDigits == {"2", "3", "4", "5", "6"}
\* byte - b'0'
digit_value(byte) ==
    CASE byte = "2" -> 2 [] byte = "3" -> 3 [] byte = "4" -> 4
      [] byte = "5" -> 5 [] byte = "6" -> 6

Section(depth, heading, contents) ==
    [depth |-> depth, heading |-> heading, contents |-> contents]
ParagraphText(runs) == [paragraph |-> "Text", text |-> runs, list |-> <<>>]
ParagraphList(items) == [paragraph |-> "List", text |-> <<>>, list |-> items]
ParagraphCode(runs) == [paragraph |-> "Code", text |-> runs, list |-> <<>>]
\* Option::map(|decl| decl.code)
code_of(o) == IF IsSome(o) THEN Some(Unwrap(o).code) ELSE None

(***************************************************************************)
(* lib.rs: the block recognisers and the docblock segmenter.               *)
(***************************************************************************)
lib_parse_pre(maybe_pre) ==
    IF ~as_element(maybe_pre) THEN None
    ELSE IF maybe_pre.name /= "pre" THEN None
    ELSE Some([code |-> lib_parse_text_inside(maybe_pre)])

lib_parse_p(maybe_p) ==
    IF ~as_element(maybe_p) THEN None
    ELSE IF maybe_p.name /= "p" THEN None
    ELSE Some(lib_parse_text_inside(maybe_p))

RECURSIVE lib_parse_list_loop(_, _, _), lib_parse_list_loop_skipping(_, _, _)
\* a mutant of lib_parse_list_loop: a child that is not an li is skipped
lib_parse_list_loop_skipping(kids, i, list) ==
    IF i > Len(kids) THEN Some(list)
    ELSE IF ~as_element(kids[i]) THEN lib_parse_list_loop_skipping(kids, i + 1, list)
    ELSE IF kids[i].name /= "li" THEN lib_parse_list_loop_skipping(kids, i + 1, list)
    ELSE lib_parse_list_loop_skipping(kids, i + 1,
             Append(list, lib_parse_text_inside(kids[i])))

lib_parse_list_loop(kids, i, list) ==
    IF i > Len(kids) THEN Some(list)
    ELSE IF ~as_element(kids[i]) THEN None
    ELSE IF kids[i].name /= "li" THEN None
    ELSE lib_parse_list_loop(kids, i + 1, Append(list, lib_parse_text_inside(kids[i])))

lib_parse_list(maybe_list) ==
    IF ~as_element(maybe_list) THEN None
    ELSE IF ~(maybe_list.name = "ul" \/ maybe_list.name = "ol") THEN None
    ELSE lib_parse_list_loop(maybe_list.children, 1, <<>>)

RECURSIVE lib_first_pre(_, _)
\* for child in children: the first child parse_pre accepts
lib_first_pre(kids, i) ==
    IF i > Len(kids) THEN None
    ELSE IF IsSome(lib_parse_pre(kids[i])) THEN lib_parse_pre(kids[i])
    ELSE lib_first_pre(kids, i + 1)

lib_parse_code(maybe_code) ==
    IF ~as_element(maybe_code) THEN None
    ELSE IF ~(maybe_code.name = "div" /\ has_class(maybe_code, "example-wrap")) THEN None
    ELSE code_of(lib_first_pre(maybe_code.children, 1))

\* parse_p, or else parse_list, or else parse_code, each wrapped as a Paragraph
lib_parse_content(child) ==
    IF IsSome(lib_parse_p(child))
    THEN Some(ParagraphText(Unwrap(lib_parse_p(child))))
    ELSE IF IsSome(lib_parse_list(child))
    THEN Some(ParagraphList(Unwrap(lib_parse_list(child))))
    ELSE IF IsSome(lib_parse_code(child))
    THEN Some(ParagraphCode(Unwrap(lib_parse_code(child))))
    ELSE None

\* a mutant of lib_push_content: every content opens a headless section
lib_push_content_fresh(sections, content) ==
    Append(sections, Section(2, None, <<content>>))

\* sections.last_mut(): push the content there, or open the headless section
lib_push_content(sections, content) ==
    IF Len(sections) > 0
    THEN [sections EXCEPT ![Len(sections)].contents = Append(@, content)]
    ELSE Append(sections, Section(2, None, <<content>>))

RECURSIVE lib_parse_doc_block_loop(_, _, _)
lib_parse_doc_block_loop(kids, i, sections) ==
    IF i > Len(kids) THEN Returned(Some([sections |-> sections]))
    ELSE LET child == kids[i] IN
        IF ~as_element(child) THEN lib_parse_doc_block_loop(kids, i + 1, sections)
        ELSE IF starts_with(child.name, "h") /\ Len(child.name) < 2 THEN Panic
        ELSE IF starts_with(child.name, "h") /\ byte_at(child.name, 1) \in HeadingDigits
        THEN lib_parse_doc_block_loop(kids, i + 1,
                Append(sections,
                       Section(digit_value(byte_at(child.name, 1)),
                               Some(lib_parse_text_inside(child)), <<>>)))
        ELSE LET content == lib_parse_content(child) IN
             lib_parse_doc_block_loop(kids, i + 1,
                IF IsSome(content) THEN lib_push_content(sections, Unwrap(content))
                ELSE sections)

lib_parse_doc_block(maybe_doc_block) ==
    IF ~as_element(maybe_doc_block) THEN Returned(None)
    ELSE IF ~(maybe_doc_block.name = "div" /\ has_class(maybe_doc_block, "docblock"))
    THEN Returned(None)
    ELSE lib_parse_doc_block_loop(maybe_doc_block.children, 1, <<>>)

(***************************************************************************)
(* lib.rs: the header recognisers.                                         *)
(***************************************************************************)
lib_parse_in_band(maybe_in_band) ==
    IF ~as_element(maybe_in_band) THEN None
    ELSE IF ~(maybe_in_band.name = "span" /\ has_class(maybe_in_band, "in-band")) THEN None
    ELSE Some([text |-> lib_parse_text_inside(maybe_in_band)])

RECURSIVE first_text(_), first_text_of(_, _)
\* ElementRef::text().next(): the first text node below the element, in document order
first_text(node) ==
    IF node.kind = "text" THEN Some(node.text) ELSE first_text_of(node.children, 1)
first_text_of(kids, i) ==
    IF i > Len(kids) THEN None
    ELSE OrOpt(first_text(kids[i]), first_text_of(kids, i + 1))

RECURSIVE lib_parse_out_of_band_loop(_, _)
lib_parse_out_of_band_loop(kids, i) ==
    IF i > Len(kids) THEN Some([since |-> None])
    ELSE IF as_element(kids[i]) /\ kids[i].name = "span" /\ has_class(kids[i], "since")
    THEN LET since == first_text_of(kids[i].children, 1) IN
         IF IsNone(since) THEN None ELSE Some([since |-> Some(Unwrap(since))])
    ELSE lib_parse_out_of_band_loop(kids, i + 1)

lib_parse_out_of_band(maybe_out_of_band) ==
    IF ~as_element(maybe_out_of_band) THEN None
    ELSE IF ~(maybe_out_of_band.name = "span" /\ has_class(maybe_out_of_band, "out-of-band"))
    THEN None
    ELSE lib_parse_out_of_band_loop(maybe_out_of_band.children, 1)

RECURSIVE lib_parse_fqn_loop(_, _, _, _), lib_parse_fqn_loop_lenient(_, _, _, _)
\* a mutant of lib_parse_fqn_loop: a missing out-of-band span is read as no since
lib_parse_fqn_loop_lenient(kids, i, in_band, out_of_band) ==
    IF i > Len(kids)
    THEN IF IsNone(in_band) THEN None
         ELSE Some([title |-> Unwrap(in_band).text,
                    since |-> IF IsNone(out_of_band) THEN None
                              ELSE Unwrap(out_of_band).since])
    ELSE lib_parse_fqn_loop_lenient(kids, i + 1,
            OrOpt(in_band, lib_parse_in_band(kids[i])),
            OrOpt(out_of_band, lib_parse_out_of_band(kids[i])))

lib_parse_fqn_loop(kids, i, in_band, out_of_band) ==
    IF i > Len(kids)
    THEN IF IsNone(in_band) THEN None
         ELSE IF IsNone(out_of_band) THEN None
         ELSE Some([title |-> Unwrap(in_band).text, since |-> Unwrap(out_of_band).since])
    ELSE lib_parse_fqn_loop(kids, i + 1,
            OrOpt(in_band, lib_parse_in_band(kids[i])),
            OrOpt(out_of_band, lib_parse_out_of_band(kids[i])))

lib_parse_fqn(maybe_fqn) ==
    IF ~as_element(maybe_fqn) THEN None
    ELSE IF ~(maybe_fqn.name = "h1" /\ has_class(maybe_fqn, "fqn")) THEN None
    ELSE lib_parse_fqn_loop(maybe_fqn.children, 1, None, None)

lib_parse_item_decl(maybe_item_decl) ==
    IF ~as_element(maybe_item_decl) THEN None
    ELSE IF ~(maybe_item_decl.name = "div"
              /\ (has_class(maybe_item_decl, "item-decl")
                  \/ has_class(maybe_item_decl, "type-decl")))
    THEN None
    ELSE lib_first_pre(maybe_item_decl.children, 1)

RECURSIVE lib_parse_item_info_loop(_, _, _, _)
lib_parse_item_info_loop(kids, i, stability, portability) ==
    IF i > Len(kids) THEN Some([stability |-> stability, portability |-> portability])
    ELSE LET child == kids[i]
             stab == as_element(child) /\ child.name = "div" /\ has_class(child, "stab")
         IN  IF stab /\ has_class(child, "unstable")
             THEN lib_parse_item_info_loop(kids, i + 1,
                      Some(lib_parse_text_inside(child)), portability)
             ELSE IF stab /\ has_class(child, "portability")
             THEN lib_parse_item_info_loop(kids, i + 1,
                      stability, Some(lib_parse_text_inside(child)))
             ELSE lib_parse_item_info_loop(kids, i + 1, stability, portability)

lib_parse_item_info(node) ==
    IF ~as_element(node) THEN None
    ELSE IF ~(node.name = "div" /\ has_class(node, "item-info"))
    THEN None
    ELSE lib_parse_item_info_loop(node.children, 1, None, None)

RECURSIVE lib_parse_top_doc_loop(_, _)
lib_parse_top_doc_loop(kids, i) ==
    IF i > Len(kids) THEN Returned(None)
    ELSE LET doc_block == lib_parse_doc_block(kids[i]) IN
         IF doc_block.panic THEN Panic
         ELSE IF IsSome(doc_block.value)
         THEN Returned(Some([sections |-> Unwrap(doc_block.value).sections]))
         ELSE lib_parse_top_doc_loop(kids, i + 1)

lib_parse_top_doc(node) ==
    IF ~as_element(node) THEN Returned(None)
    ELSE IF ~(node.name = "details" /\ has_class(node, "top-doc"))
    THEN Returned(None)
    ELSE lib_parse_top_doc_loop(node.children, 1)

(***************************************************************************)
(* Inputs of the text-run extractors: every tree of at most MaxShallow     *)
(* nodes over the whole inline vocabulary, and every tree of at most       *)
(* MaxNodes nodes over a part of it that still nests three distinct styles.*)
(***************************************************************************)
InlineElements ==
    { Element("a", {}, <<<<"", "href", "x">>>>, <<>>),
      Element("a", {}, <<>>, <<>>),
      Element("strong", {}, <<>>, <<>>),
      Element("em", {}, <<>>, <<>>),
      Element("u", {}, <<>>, <<>>),
      Element("del", {}, <<>>, <<>>),
      Element("code", {}, <<>>, <<>>),
      Element("br", {}, <<>>, <<>>),
      Element("span", {}, <<>>, <<>>),
      Element("span", {"fmt-newline"}, <<>>, <<>>),
      Element("p", {}, <<>>, <<>>),
      Element("div", {}, <<>>, <<>>) }
InlineLeaves == { TextNode("t"), CommentNode }
NestingElements ==
    { Element("a", {}, <<<<"", "href", "x">>>>, <<>>),
      Element("em", {}, <<>>, <<>>),
      Element("code", {}, <<>>, <<>>),
      Element("br", {}, <<>>, <<>>),
      Element("span", {"fmt-newline"}, <<>>, <<>>),
      Element("div", {}, <<>>, <<>>) }
NestingLeaves == { TextNode("t"), TextNode("s") }

RECURSIVE TreesOfSize(_, _, _), ForestsOfSize(_, _, _)
\* the ordered forests with exactly n nodes
ForestsOfSize(n, elems, leaves) ==
    IF n = 0 THEN { <<>> }
    ELSE UNION { { <<t>> \o f : t \in TreesOfSize(k, elems, leaves),
                                f \in ForestsOfSize(n - k, elems, leaves) }
                 : k \in 1..n }
\* the trees with exactly n nodes
TreesOfSize(n, elems, leaves) ==
    IF n <= 0 THEN {}
    ELSE (IF n = 1 THEN leaves ELSE {})
         \cup { [e EXCEPT !.children = f] :
                    e \in elems, f \in ForestsOfSize(n - 1, elems, leaves) }
InlineTrees ==
    UNION { TreesOfSize(n, InlineElements, InlineLeaves) : n \in 1..MaxShallow }
    \cup UNION { TreesOfSize(n, NestingElements, NestingLeaves) : n \in 1..MaxNodes }

InitCommon ==
    /\ pc = "start"
    /\ out = None
    /\ panicked = FALSE
    /\ children = 0
    /\ fqn = None
    /\ maybe_decl = None
    /\ declaration = None
    /\ maybe_item_info = None
    /\ item_info = None
    /\ maybe_top_doc = None

InitText ==
    /\ input \in InlineTrees
    /\ InitCommon

\* lib.rs parse_text_inside applied to the input node
LibParseTextInside ==
    /\ pc = "start"
    /\ pc' = "lib_parse_text_inside"
    /\ out' = Some(lib_parse_text_inside(input))
    /\ UNCHANGED <<input, panicked, docLocals>>

\* atom.rs parse_text_inside applied to the input node
ParseTextInside ==
    /\ pc = "start"
    /\ pc' = "parse_text_inside"
    /\ out' = Some(parse_text_inside(input))
    /\ UNCHANGED <<input, panicked, docLocals>>

\* atom.rs parse_text_outside applied to the input node
ParseTextOutside ==
    /\ pc = "start"
    /\ pc' = "parse_text_outside"
    /\ out' = Some(parse_text_outside(input))
    /\ UNCHANGED <<input, panicked, docLocals>>

NextText == LibParseTextInside \/ ParseTextInside \/ ParseTextOutside

SpecText == InitText /\ [][NextText]_vars

(***************************************************************************)
(* atom.rs: the block recognisers; header.rs: the docblock segmenter.      *)
(***************************************************************************)
parse_pre(maybe_pre) ==
    IF ~as_element(maybe_pre) THEN None
    ELSE IF maybe_pre.name /= "pre" THEN None
    ELSE Some([code |-> parse_text_inside(maybe_pre)])

parse_p(maybe_p) ==
    IF ~as_element(maybe_p) THEN None
    ELSE IF maybe_p.name /= "p" THEN None
    ELSE Some(parse_text_inside(maybe_p))

RECURSIVE parse_list_loop(_, _, _)
parse_list_loop(kids, i, list) ==
    IF i > Len(kids) THEN Some(list)
    ELSE IF as_element(kids[i]) /\ kids[i].name = "li"
    THEN parse_list_loop(kids, i + 1, Append(list, parse_text_inside(kids[i])))
    ELSE parse_list_loop(kids, i + 1, list)

parse_list(maybe_list) ==
    IF ~as_element(maybe_list) THEN None
    ELSE IF ~(maybe_list.name = "ul" \/ maybe_list.name = "ol") THEN None
    ELSE parse_list_loop(maybe_list.children, 1, <<>>)

RECURSIVE first_pre(_, _)
\* for child in children: the first child parse_pre accepts
first_pre(kids, i) ==
    IF i > Len(kids) THEN None
    ELSE IF IsSome(parse_pre(kids[i])) THEN parse_pre(kids[i])
    ELSE first_pre(kids, i + 1)

parse_code(maybe_code) ==
    IF ~as_element(maybe_code) THEN None
    ELSE IF ~(maybe_code.name = "div" /\ has_class(maybe_code, "example-wrap")) THEN None
    ELSE code_of(first_pre(maybe_code.children, 1))

\* parse_p, or else parse_list, or else parse_code, each wrapped as a Paragraph
parse_content(child) ==
    IF IsSome(parse_p(child))
    THEN Some(ParagraphText(Unwrap(parse_p(child))))
    ELSE IF IsSome(parse_list(child))
    THEN Some(ParagraphList(Unwrap(parse_list(child))))
    ELSE IF IsSome(parse_code(child))
    THEN Some(ParagraphCode(Unwrap(parse_code(child))))
    ELSE None

\* sections.last_mut(): push the content there, or open the headless section
push_content(sections, content) ==
    IF Len(sections) > 0
    THEN [sections EXCEPT ![Len(sections)].contents = Append(@, content)]
    ELSE Append(sections, Section(2, None, <<content>>))

RECURSIVE parse_doc_block_loop(_, _, _)
parse_doc_block_loop(kids, i, sections) ==
    IF i > Len(kids) THEN Returned(Some([sections |-> sections]))
    ELSE LET child == kids[i] IN
        IF ~as_element(child) THEN parse_doc_block_loop(kids, i + 1, sections)
        ELSE IF starts_with(child.name, "h") /\ Len(child.name) < 2 THEN Panic
        ELSE IF starts_with(child.name, "h") /\ byte_at(child.name, 1) \in HeadingDigits
        THEN parse_doc_block_loop(kids, i + 1,
                Append(sections,
                       Section(digit_value(byte_at(child.name, 1)),
                               Some(parse_text_inside(child)), <<>>)))
        ELSE LET content == parse_content(child) IN
             parse_doc_block_loop(kids, i + 1,
                IF IsSome(content) THEN push_content(sections, Unwrap(content))
                ELSE sections)

parse_doc_block(maybe_doc_block) ==
    IF ~as_element(maybe_doc_block) THEN Returned(None)
    ELSE IF ~(maybe_doc_block.name = "div" /\ has_class(maybe_doc_block, "docblock"))
    THEN Returned(None)
    ELSE parse_doc_block_loop(maybe_doc_block.children, 1, <<>>)

(***************************************************************************)
(* atom.rs: disclosures (parse_unstable, parse_portability,                *)
(* parse_deprecated, parse_details).                                       *)
(***************************************************************************)
Details(summary, detail) == [summary |-> summary, detail |-> detail]

RECURSIVE parse_detail_loop(_, _, _)
\* children.for_each(|child| parse_text_outside_to(child, &mut detail))
parse_detail_loop(kids, i, detail) ==
    IF i > Len(kids) THEN detail
    ELSE parse_detail_loop(kids, i + 1, parse_text_outside_to(kids[i], detail))

\* a mutant of parse_details: the first child is taken as the summary whatever
\* element it is
parse_details_any_summary(maybe_details) ==
    IF ~as_element(maybe_details) THEN None
    ELSE IF maybe_details.name /= "details" THEN None
    ELSE IF Len(maybe_details.children) = 0 THEN None
    ELSE IF ~as_element(maybe_details.children[1]) THEN None
    ELSE Some(Details(parse_text_inside(maybe_details.children[1]),
                      Some(parse_detail_loop(maybe_details.children, 2, <<>>))))

parse_details(maybe_details) ==
    IF ~as_element(maybe_details) THEN None
    ELSE IF maybe_details.name /= "details" THEN None
    ELSE IF Len(maybe_details.children) = 0 THEN None
    ELSE LET maybe_summary == maybe_details.children[1] IN
         IF ~as_element(maybe_summary) THEN None
         ELSE IF maybe_summary.name /= "summary" THEN None
         ELSE Some(Details(parse_text_inside(maybe_summary),
                           Some(parse_detail_loop(maybe_details.children, 2, <<>>))))

\* the body the three disclosure recognisers share, for the class each one tests
parse_disclosure(node, class) ==
    IF ~as_element(node) THEN None
    ELSE IF ~has_class(node, class) THEN None
    ELSE LET details == IF IsSome(first_child(node))
                        THEN parse_details(Unwrap(first_child(node))) ELSE None
         IN  Some(IF IsSome(details) THEN Unwrap(details)
                  ELSE Details(parse_text_inside(node), None))

parse_unstable(maybe_unstable) == parse_disclosure(maybe_unstable, "unstable")
parse_portability(maybe_portability) == parse_disclosure(maybe_portability, "portability")
parse_deprecated(maybe_deprecated) == parse_disclosure(maybe_deprecated, "deprecated")

RECURSIVE first_disclosure(_, _, _, _), last_disclosure(_, _, _, _)
\* a mutant of first_disclosure: a later child of the class replaces the earlier
last_disclosure(kids, i, class, found) ==
    IF i > Len(kids) THEN found
    ELSE last_disclosure(kids, i + 1, class,
            IF IsSome(parse_disclosure(kids[i], class))
            THEN parse_disclosure(kids[i], class) ELSE found)

\* for child in children { found = found.or_else(|| parse_<class>(child)) }
first_disclosure(kids, i, class, found) ==
    IF i > Len(kids) THEN found
    ELSE first_disclosure(kids, i + 1, class,
            IF IsSome(found) THEN found ELSE parse_disclosure(kids[i], class))

(***************************************************************************)
(* section/table.rs: the two encodings of the item table.                  *)
(***************************************************************************)
ItemRow(item, stability, portability, deprecation, summary) ==
    [item |-> item, stability |-> stability, portability |-> portability,
     deprecation |-> deprecation, summary |-> summary]

parse_item_left(maybe_item_left) ==
    IF ~as_element(maybe_item_left) THEN None
    ELSE IF ~(maybe_item_left.name = "div" /\ has_class(maybe_item_left, "item-left"))
    THEN None
    ELSE IF Len(maybe_item_left.children) = 0 THEN None
    ELSE LET kids == maybe_item_left.children IN
         Some([text |-> parse_text_outside(kids[1]),
               stability |-> first_disclosure(kids, 2, "unstable", None),
               portability |-> first_disclosure(kids, 2, "portability", None),
               deprecation |-> first_disclosure(kids, 2, "deprecated", None)])

parse_item_right(maybe_item_right) ==
    IF ~as_element(maybe_item_right) THEN None
    ELSE IF ~(maybe_item_right.name = "div" /\ has_class(maybe_item_right, "item-right"))
    THEN None
    ELSE Some(parse_text_inside(maybe_item_right))

\* the ItemRow of a parsed left cell and a parsed right cell
row_of(left, right) ==
    ItemRow(left.text, left.stability, left.portability, left.deprecation, right)

parse_item_row(maybe_item_row) ==
    IF ~as_element(maybe_item_row) THEN None
    ELSE IF ~(maybe_item_row.name = "div" /\ has_class(maybe_item_row, "item-row"))
    THEN None
    ELSE LET kids == maybe_item_row.children IN
         IF Len(kids) < 1 THEN None
         ELSE IF IsNone(parse_item_left(kids[1])) THEN None
         ELSE IF Len(kids) < 2 THEN None
         ELSE IF IsNone(parse_item_right(kids[2])) THEN None
         ELSE Some(row_of(Unwrap(parse_item_left(kids[1])),
                          Unwrap(parse_item_right(kids[2]))))

RECURSIVE parse_item_table_loop(_, _, _), parse_item_table_loop_partial(_, _, _)
\* a mutant of parse_item_table_loop: an item-left without its item-right ends
\* the scan and the rows parsed so far are returned
parse_item_table_loop_partial(kids, i, rows) ==
    IF i > Len(kids) THEN Some(rows)
    ELSE IF IsSome(parse_item_row(kids[i]))
    THEN parse_item_table_loop_partial(kids, i + 1,
            Append(rows, Unwrap(parse_item_row(kids[i]))))
    ELSE IF IsNone(parse_item_left(kids[i])) THEN None
    ELSE IF i + 1 > Len(kids) THEN Some(rows)
    ELSE IF IsNone(parse_item_right(kids[i + 1])) THEN Some(rows)
    ELSE parse_item_table_loop_partial(kids, i + 2,
            Append(rows, row_of(Unwrap(parse_item_left(kids[i])),
                                Unwrap(parse_item_right(kids[i + 1])))))

\* while let Some(child) = children.next(): i is the index next() yields
parse_item_table_loop(kids, i, rows) ==
    IF i > Len(kids) THEN Some(rows)
    ELSE IF IsSome(parse_item_row(kids[i]))
    THEN parse_item_table_loop(kids, i + 1,
            Append(rows, Unwrap(parse_item_row(kids[i]))))
    ELSE IF IsNone(parse_item_left(kids[i])) THEN None
    ELSE IF i + 1 > Len(kids) THEN None
    ELSE IF IsNone(parse_item_right(kids[i + 1])) THEN None
    ELSE parse_item_table_loop(kids, i + 2,
            Append(rows, row_of(Unwrap(parse_item_left(kids[i])),
                                Unwrap(parse_item_right(kids[i + 1])))))

parse_item_table(maybe_item_table) ==
    IF ~as_element(maybe_item_table) THEN None
    ELSE IF ~(maybe_item_table.name = "div" /\ has_class(maybe_item_table, "item-table"))
    THEN None
    ELSE parse_item_table_loop(maybe_item_table.children, 1, <<>>)

\* the fn parse_right nested in parse_block_table
parse_right(maybe_right) ==
    IF ~as_element(maybe_right) THEN None
    ELSE IF maybe_right.name /= "td" THEN None
    ELSE Some(parse_text_inside(maybe_right))

\* children.next().and_then(parse_right).unwrap_or_default() on the cells of a tr
right_or_default(cells) ==
    IF Len(cells) < 2 THEN <<>>
    ELSE IF IsNone(parse_right(cells[2])) THEN <<>>
    ELSE Unwrap(parse_right(cells[2]))

RECURSIVE parse_block_table_loop(_, _, _), parse_block_table_loop_strict(_, _, _)
\* a mutant of parse_block_table_loop: the right td is as mandatory as the
\* item-right of the div encoding
parse_block_table_loop_strict(kids, i, rows) ==
    IF i > Len(kids) THEN Some(rows)
    ELSE LET child == kids[i] IN
         IF ~as_element(child) THEN None
         ELSE IF child.name /= "tr" THEN None
         ELSE IF Len(child.children) = 0 THEN None
         ELSE LET maybe_left == child.children[1] IN
              IF ~as_element(maybe_left) THEN None
              ELSE IF maybe_left.name /= "td" THEN None
              ELSE IF Len(maybe_left.children) = 0 THEN None
              ELSE IF Len(child.children) < 2 THEN None
              ELSE IF IsNone(parse_right(child.children[2])) THEN None
              ELSE LET left_children == maybe_left.children IN
                   parse_block_table_loop_strict(kids, i + 1,
                       Append(rows,
                           ItemRow(parse_text_outside(left_children[1]),
                                   first_disclosure(left_children, 2, "unstable", None),
                                   first_disclosure(left_children, 2, "portability", None),
                                   first_disclosure(left_children, 2, "deprecated", None),
                                   Unwrap(parse_right(child.children[2])))))

\* for child in maybe_tbody.children()
parse_block_table_loop(kids, i, rows) ==
    IF i > Len(kids) THEN Some(rows)
    ELSE LET child == kids[i] IN
         IF ~as_element(child) THEN None
         ELSE IF child.name /= "tr" THEN None
         ELSE IF Len(child.children) = 0 THEN None
         ELSE LET maybe_left == child.children[1] IN
              IF ~as_element(maybe_left) THEN None
              ELSE IF maybe_left.name /= "td" THEN None
              ELSE IF Len(maybe_left.children) = 0 THEN None
              ELSE LET left_children == maybe_left.children IN
                   parse_block_table_loop(kids, i + 1,
                       Append(rows,
                           ItemRow(parse_text_outside(left_children[1]),
                                   first_disclosure(left_children, 2, "unstable", None),
                                   first_disclosure(left_children, 2, "portability", None),
                                   first_disclosure(left_children, 2, "deprecated", None),
                                   right_or_default(child.children))))

parse_block_table(maybe_table) ==
    IF ~as_element(maybe_table) THEN None
    ELSE IF ~(maybe_table.name = "table"
              /\ attr(maybe_table, "style") = Some("display: block;"))
    THEN None
    ELSE IF IsNone(first_child(maybe_table)) THEN None
    ELSE LET maybe_tbody == Unwrap(first_child(maybe_table)) IN
         IF ~as_element(maybe_tbody) THEN None
         ELSE IF maybe_tbody.name /= "tbody" THEN None
         ELSE parse_block_table_loop(maybe_tbody.children, 1, <<>>)

(***************************************************************************)
(* header.rs: parse_item_info; item/: the listing heading, the field or    *)
(* variant, and the impl recognisers.  A recogniser that reaches           *)
(* header.rs parse_doc_block returns a result that may be a panic.         *)
(***************************************************************************)
ItemInfo(stability, portability, deprecation) ==
    [stability |-> stability, portability |-> portability, deprecation |-> deprecation]
\* ItemInfo::default()
ItemInfoDefault == ItemInfo(None, None, None)

parse_item_info(node) ==
    IF ~as_element(node) THEN None
    ELSE IF ~(node.name = "div" /\ has_class(node, "item-info")) THEN None
    ELSE Some(ItemInfo(first_disclosure(node.children, 1, "unstable", None),
                       first_disclosure(node.children, 1, "portability", None),
                       first_disclosure(node.children, 1, "deprecated", None)))

is_item_header(maybe_section_header) ==
    /\ as_element(maybe_section_header)
    /\ maybe_section_header.name = "h2"
    /\ \/ has_class(maybe_section_header, "section-header")
       \/ has_class(maybe_section_header, "small-section-header")

parse_item_header(maybe_section_header) ==
    IF ~as_element(maybe_section_header) THEN None
    ELSE IF ~(maybe_section_header.name = "h2"
              /\ (\/ has_class(maybe_section_header, "section-header")
                  \/ has_class(maybe_section_header, "small-section-header")))
    THEN None
    ELSE Some(parse_text_inside(maybe_section_header))

parse_struct_field_or_variant(maybe) ==
    IF ~as_element(maybe) THEN None
    ELSE IF ~(maybe.name = "span"
              /\ (has_class(maybe, "structfield") \/ has_class(maybe, "variant")))
    THEN None
    ELSE Some(parse_text_inside(maybe))

Item(name, info, description) ==
    [name |-> name, info |-> info, description |-> description]
Impl(target, items) == [target |-> target, items |-> items]

RECURSIVE first_code_child(_, _, _, _)
\* the for loops of parse_impl_heading, parse_empty_impl and parse_item_heading:
\* the first element child with this name (and this class, when one is asked)
first_code_child(kids, i, name, classes) ==
    IF i > Len(kids) THEN None
    ELSE IF as_element(kids[i]) /\ kids[i].name = name /\ classes \subseteq kids[i].classes
    THEN Some(kids[i])
    ELSE first_code_child(kids, i + 1, name, classes)

parse_impl_heading(maybe_impl_header) ==
    IF ~as_element(maybe_impl_header) THEN None
    ELSE IF ~(maybe_impl_header.name = "h3" /\ has_class(maybe_impl_header, "impl"))
    THEN None
    ELSE LET code == first_code_child(maybe_impl_header.children, 1, "code", {"in-band"}) IN
         IF IsSome(code) THEN Some([title |-> parse_text_outside(Unwrap(code))]) ELSE None

parse_empty_impl(maybe_empty_impl) ==
    IF ~as_element(maybe_empty_impl) THEN None
    ELSE IF ~(maybe_empty_impl.name = "div" /\ has_class(maybe_empty_impl, "impl"))
    THEN None
    ELSE LET h3 == first_code_child(maybe_empty_impl.children, 1, "h3", {"in-band"}) IN
         IF IsSome(h3) THEN Some(Impl(parse_text_inside(Unwrap(h3)), <<>>)) ELSE None

parse_item_heading(maybe_item_heading) ==
    IF ~as_element(maybe_item_heading) THEN None
    ELSE IF maybe_item_heading.name /= "h4" THEN None
    ELSE LET code == first_code_child(maybe_item_heading.children, 1, "code", {}) IN
         IF IsSome(code) THEN Some([title |-> parse_text_outside(Unwrap(code))]) ELSE None

RECURSIVE first_code_header(_, _)
\* the for loop of parse_srclink: the first element child of class code-header
first_code_header(kids, i) ==
    IF i > Len(kids) THEN None
    ELSE IF as_element(kids[i]) /\ has_class(kids[i], "code-header")
    THEN Some(parse_text_inside(kids[i]))
    ELSE first_code_header(kids, i + 1)

parse_srclink(maybe_srclink) ==
    IF ~as_element(maybe_srclink) THEN None
    ELSE IF ~(maybe_srclink.name = "div" /\ has_class(maybe_srclink, "has-srclink"))
    THEN None
    ELSE first_code_header(maybe_srclink.children, 1)

parse_toggle_item(maybe_toggle_item) ==
    IF ~as_element(maybe_toggle_item) THEN Returned(None)
    ELSE IF maybe_toggle_item.name /= "details" THEN Returned(None)
    ELSE IF Len(maybe_toggle_item.children) = 0 THEN Returned(None)
    ELSE LET maybe_summary == maybe_toggle_item.children[1] IN
         IF ~as_element(maybe_summary) THEN Returned(None)
         ELSE IF maybe_summary.name /= "summary" THEN Returned(None)
         ELSE IF IsNone(first_child(maybe_summary)) THEN Returned(None)
         ELSE LET srclink == parse_srclink(Unwrap(first_child(maybe_summary))) IN
              IF IsNone(srclink) THEN Returned(None)
              ELSE IF Len(maybe_toggle_item.children) < 2 THEN Returned(None)
              ELSE LET described(doc_block) ==
                           IF doc_block.panic THEN Panic
                           ELSE IF IsNone(doc_block.value) THEN Returned(None)
                           ELSE Returned(Some(Item(Unwrap(srclink), ItemInfoDefault,
                                                   Some(Unwrap(doc_block.value).sections))))
                   IN described(parse_doc_block(maybe_toggle_item.children[2]))

\* items.last_mut() is Some: last_item.info = item_info
set_last_info(items, info) ==
    IF Len(items) > 0 THEN [items EXCEPT ![Len(items)].info = info] ELSE items
\* items.last_mut() is Some: last_item.description = Some(doc_block.sections)
set_last_description(items, sections) ==
    IF Len(items) > 0 THEN [items EXCEPT ![Len(items)].description = Some(sections)]
    ELSE items

\* the body of the for loop of parse_impl_items for one child: the if / else
\* if chain, giving the items after the child
parse_impl_items_child(child, items) ==
    IF IsSome(parse_item_heading(child))
    THEN Returned(Append(items, Item(Unwrap(parse_item_heading(child)).title,
                                     ItemInfoDefault, None)))
    ELSE IF IsSome(parse_item_info(child))
    THEN Returned(set_last_info(items, Unwrap(parse_item_info(child))))
    ELSE LET toggled(toggle) ==
                 IF toggle.panic THEN Panic
                 ELSE IF IsSome(toggle.value)
                 THEN Returned(Append(items, Unwrap(toggle.value)))
                 ELSE Returned(items)
             described(doc_block) ==
                 IF doc_block.panic THEN Panic
                 ELSE IF IsSome(doc_block.value)
                 THEN Returned(set_last_description(items, Unwrap(doc_block.value).sections))
                 ELSE IF IsSome(parse_srclink(child))
                 THEN Returned(Append(items, Item(Unwrap(parse_srclink(child)),
                                                  ItemInfoDefault, None)))
                 ELSE toggled(parse_toggle_item(child))
         IN described(parse_doc_block(child))

RECURSIVE parse_impl_items_loop(_, _, _)
\* for child in maybe_impl_items.children()
parse_impl_items_loop(kids, i, items) ==
    IF i > Len(kids) THEN Returned(Some(items))
    ELSE LET continue(after) ==
                 IF after.panic THEN Panic
                 ELSE parse_impl_items_loop(kids, i + 1, after.value)
         IN continue(parse_impl_items_child(kids[i], items))

parse_impl_items(maybe_impl_items) ==
    IF ~as_element(maybe_impl_items) THEN Returned(None)
    ELSE IF ~(maybe_impl_items.name = "div" /\ has_class(maybe_impl_items, "impl-items"))
    THEN Returned(None)
    ELSE parse_impl_items_loop(maybe_impl_items.children, 1, <<>>)

\* impls.last_mut() is Some: last_impl.items = items
set_last_items(impls, items) ==
    IF Len(impls) > 0 THEN [impls EXCEPT ![Len(impls)].items = items] ELSE impls

\* the body of the while loop of parse_impl_div for one child: the if / else
\* if chain, giving the impls after the child, or None where it returns None
parse_impl_div_child(child, impls) ==
    IF IsSome(parse_empty_impl(child))
    THEN Returned(Some(Append(impls, Unwrap(parse_empty_impl(child)))))
    ELSE IF IsSome(parse_impl_heading(child))
    THEN Returned(Some(Append(impls, Impl(Unwrap(parse_impl_heading(child)).title, <<>>))))
    ELSE LET listed(items) ==
                 IF items.panic THEN Panic
                 ELSE IF IsSome(items.value)
                 THEN Returned(Some(set_last_items(impls, Unwrap(items.value))))
                 ELSE Returned(None)
         IN listed(parse_impl_items(child))

RECURSIVE parse_impl_div_loop(_, _, _)
\* while let Some(child) = children.next()
parse_impl_div_loop(kids, i, impls) ==
    IF i > Len(kids) THEN Returned(Some(impls))
    ELSE LET continue(after) ==
                 IF after.panic THEN Panic
                 ELSE IF IsNone(after.value) THEN Returned(None)
                 ELSE parse_impl_div_loop(kids, i + 1, Unwrap(after.value))
         IN continue(parse_impl_div_child(kids[i], impls))

parse_impl_div(maybe_impl_list) ==
    IF ~as_element(maybe_impl_list) THEN Returned(None)
    ELSE IF maybe_impl_list.name /= "div" THEN Returned(None)
    ELSE parse_impl_div_loop(maybe_impl_list.children, 1, <<>>)

\* children.next().and_then(parse_impl_items).unwrap_or_default() on the
\* children of the toggle
items_or_default(kids) ==
    IF Len(kids) < 2 THEN Returned(<<>>)
    ELSE LET listed(items) ==
                 IF items.panic THEN Panic
                 ELSE IF IsSome(items.value) THEN Returned(Unwrap(items.value))
                 ELSE Returned(<<>>)
         IN listed(parse_impl_items(kids[2]))

parse_implementor(maybe_implementor) ==
    IF ~as_element(maybe_implementor) THEN Returned(None)
    ELSE IF ~(maybe_implementor.name = "details"
              /\ has_class(maybe_implementor, "implementors-toggle"))
    THEN Returned(None)
    ELSE IF Len(maybe_implementor.children) = 0 THEN Returned(None)
    ELSE LET maybe_summary == maybe_implementor.children[1] IN
         IF ~as_element(maybe_summary) THEN Returned(None)
         ELSE IF maybe_summary.name /= "summary" THEN Returned(None)
         ELSE IF IsNone(first_child(maybe_summary)) THEN Returned(None)
         ELSE LET target == parse_srclink(Unwrap(first_child(maybe_summary))) IN
              IF IsNone(target) THEN Returned(None)
              ELSE LET listed(items) ==
                           IF items.panic THEN Panic
                           ELSE Returned(Some(Impl(Unwrap(target), items.value)))
                   IN listed(items_or_default(maybe_implementor.children))

\* a mutant of parse_implementor_or_empty: only the toggle shape is tried
parse_implementor_only(node) == parse_implementor(node)

\* parse_implementor(node).or_else(|| parse_empty_impl(node))
parse_implementor_or_empty(node) ==
    LET or_else(implementor) ==
            IF implementor.panic THEN Panic
            ELSE IF IsSome(implementor.value) THEN implementor
            ELSE Returned(parse_empty_impl(node))
    IN or_else(parse_implementor(node))

(***************************************************************************)
(* lib.rs: parse_document, one action per slot of the header.  The input   *)
(* is Option of the element "#main" selects; children counts the nodes     *)
(* taken from main.children(); maybe_decl, maybe_item_info, maybe_top_doc  *)
(* hold the index of the node each slot probes.                            *)
(***************************************************************************)
\* Iterator::next on main.children(): the index it yields, if any
iter_next(kids, taken) == IF taken < Len(kids) THEN Some(taken + 1) ELSE None
\* the number of nodes taken after one more call of next
iter_taken(kids, taken) == IF taken < Len(kids) THEN taken + 1 ELSE taken
\* the node behind an Option of index; applied only to Some
node_at(kids, maybe_index) == kids[Unwrap(maybe_index)]

stability_of(info) == IF IsSome(info) THEN Unwrap(info).stability ELSE None
portability_of(info) == IF IsSome(info) THEN Unwrap(info).portability ELSE None

Document(title, since, decl, stability, portability, description) ==
    [title |-> title, since |-> since, declaration |-> decl,
     stability |-> stability, portability |-> portability,
     description |-> description]

\* lines 16-22: select #main, take the first child, parse the title
ParseFqn ==
    /\ pc = "start"
    /\ IF IsNone(input) THEN
            /\ pc' = "done"
            /\ UNCHANGED <<children, fqn>>
       ELSE IF Len(Unwrap(input).children) = 0 THEN
            /\ pc' = "done"
            /\ UNCHANGED <<children, fqn>>
       ELSE /\ children' = 1
            /\ fqn' = lib_parse_fqn(Unwrap(input).children[1])
            /\ pc' = IF IsNone(fqn') THEN "done" ELSE "decl"
    /\ out' = None
    /\ UNCHANGED <<input, panicked, maybe_decl, declaration, maybe_item_info,
                   item_info, maybe_top_doc>>

\* lines 24-27: probe the next child as a declaration
ProbeDecl ==
    /\ pc = "decl"
    /\ LET kids == Unwrap(input).children IN
        /\ maybe_decl' = iter_next(kids, children)
        /\ children' = iter_taken(kids, children)
        /\ LET item_decl == IF IsNone(maybe_decl') THEN None
                            ELSE code_of(lib_parse_item_decl(node_at(kids, maybe_decl')))
               pre == IF IsNone(maybe_decl') THEN None
                      ELSE code_of(lib_parse_pre(node_at(kids, maybe_decl')))
           IN declaration' = OrOpt(item_decl, pre)
    /\ pc' = "item_info"
    /\ UNCHANGED <<input, out, panicked, fqn, maybe_item_info, item_info, maybe_top_doc>>

\* lines 29-36: probe the same child, or the next one, as item-info
ProbeItemInfo ==
    /\ pc = "item_info"
    /\ LET kids == Unwrap(input).children IN
        /\ IF IsNone(declaration)
           THEN /\ maybe_item_info' = maybe_decl
                /\ UNCHANGED children
           ELSE /\ maybe_item_info' = iter_next(kids, children)
                /\ children' = iter_taken(kids, children)
        /\ item_info' = IF IsNone(maybe_item_info') THEN None
                        ELSE lib_parse_item_info(node_at(kids, maybe_item_info'))
    /\ pc' = "top_doc"
    /\ UNCHANGED <<input, out, panicked, fqn, maybe_decl, declaration, maybe_top_doc>>

\* lines 38-52: probe the same child, or the next one, as top-doc, and return
ProbeTopDoc ==
    /\ pc = "top_doc"
    /\ LET kids == Unwrap(input).children
           stability == stability_of(item_info)
           portability == portability_of(item_info)
       IN
        /\ IF IsNone(stability) /\ IsNone(portability)
           THEN /\ maybe_top_doc' = maybe_item_info
                /\ UNCHANGED children
           ELSE /\ maybe_top_doc' = iter_next(kids, children)
                /\ children' = iter_taken(kids, children)
        /\ IF IsNone(maybe_top_doc')
           THEN /\ out' = None
                /\ UNCHANGED panicked
           ELSE LET top_doc == lib_parse_top_doc(node_at(kids, maybe_top_doc')) IN
                /\ panicked' = top_doc.panic
                /\ out' = IF top_doc.panic \/ IsNone(top_doc.value) THEN None
                          ELSE Some(Document(Unwrap(fqn).title, Unwrap(fqn).since,
                                             declaration, stability, portability,
                                             Unwrap(top_doc.value).sections))
    /\ pc' = "done"
    /\ UNCHANGED <<input, fqn, maybe_decl, declaration, maybe_item_info, item_info>>

NextDoc == ParseFqn \/ ProbeDecl \/ ProbeItemInfo \/ ProbeTopDoc

(***************************************************************************)
(* Pages: a first child of #main drawn from the title shapes, followed by  *)
(* at most MaxSlots nodes drawn from the shapes the header slots meet.     *)
(***************************************************************************)
El(name, classes, kids) == Element(name, classes, <<>>, kids)

InBandFoo == El("span", {"in-band"}, <<TextNode("Foo")>>)
TitleOk == El("h1", {"fqn"}, <<InBandFoo, El("span", {"out-of-band"}, <<>>)>>)
TitleSince ==
    El("h1", {"fqn"},
       <<El("span", {"out-of-band"}, <<El("span", {"since"}, <<TextNode("1.0")>>)>>),
         InBandFoo>>)
TitleSrcLink ==
    El("h1", {"fqn"},
       <<InBandFoo, El("span", {"out-of-band"}, <<El("a", {"srclink"}, <<TextNode("src")>>)>>)>>)
TitleEmptySince ==
    El("h1", {"fqn"},
       <<InBandFoo, El("span", {"out-of-band"}, <<El("span", {"since"}, <<>>)>>)>>)
TitleNoInBand == El("h1", {"fqn"}, <<El("span", {"out-of-band"}, <<>>)>>)
TitleNoOutOfBand == El("h1", {"fqn"}, <<InBandFoo>>)
TitleNodes ==
    { TitleOk, TitleSince, TitleSrcLink, TitleEmptySince, TitleNoInBand,
      TitleNoOutOfBand, TextNode(" ") }

DocBlockHello == El("div", {"docblock"}, <<El("p", {}, <<TextNode("Hello.")>>)>>)
DeclDiv == El("div", {"item-decl"}, <<El("pre", {}, <<TextNode("fn")>>)>>)
BarePre == El("pre", {}, <<TextNode("fn")>>)
InfoEmpty == El("div", {"item-info"}, <<>>)
InfoUnstable ==
    El("div", {"item-info"}, <<El("div", {"stab", "unstable"}, <<TextNode("u")>>)>>)
InfoDeprecated ==
    El("div", {"item-info"}, <<El("div", {"stab", "deprecated"}, <<TextNode("d")>>)>>)
TopDocHello == El("details", {"top-doc"}, <<DocBlockHello>>)
TopDocOddHeading ==
    El("details", {"top-doc"}, <<El("div", {"docblock"}, <<El("h", {}, <<>>)>>)>>)
SlotNodes ==
    { DeclDiv, BarePre, InfoEmpty, InfoUnstable, InfoDeprecated, TopDocHello,
      DocBlockHello, TopDocOddHeading, TextNode(" ") }

\* the sequences over S of length at most n
SeqsUpTo(S, n) == UNION { [1..k -> S] : k \in 0..n }

\* item-info nodes with several markers
InfoTwoUnstable ==
    El("div", {"item-info"},
       <<El("div", {"stab", "unstable"}, <<TextNode("u1")>>),
         El("div", {"stab", "unstable"}, <<TextNode("u2")>>)>>)
InfoUnstableAndDeprecated ==
    El("div", {"item-info"},
       <<El("div", {"stab", "unstable"}, <<TextNode("u")>>),
         El("div", {"stab", "deprecated"}, <<TextNode("d")>>)>>)
InfoPortabilitySpan ==
    El("div", {"item-info"},
       <<El("div", {"stab", "portability"}, <<TextNode("p")>>),
         El("span", {"unstable"}, <<TextNode("u")>>)>>)
InfoNodes == { InfoTwoUnstable, InfoUnstableAndDeprecated, InfoPortabilitySpan }

\* what follows the header on a page with listings: listing headings and
\* the bodies of a table listing and of a field listing
HeadingStructs == El("h2", {"section-header"}, <<TextNode("Structs")>>)
HeadingFields == El("h2", {"small-section-header"}, <<TextNode("Fields")>>)
ListingTable ==
    El("div", {"item-table"},
       <<El("div", {"item-row"},
            <<El("div", {"item-left"}, <<TextNode("A")>>),
              El("div", {"item-right"}, <<TextNode("s")>>)>>)>>)
FieldSpan == El("span", {"structfield"}, <<TextNode("f")>>)
ListingNodes == { HeadingStructs, HeadingFields, ListingTable, FieldSpan, TextNode(" ") }

Pages ==
    { None, Some(El("div", {}, <<>>)) }
    \cup { Some(El("div", {}, <<title>> \o rest)) :
              title \in TitleNodes, rest \in SeqsUpTo(SlotNodes, MaxSlots) }
    \cup { Some(El("div", {}, <<TitleOk, TopDocHello>> \o rest)) :
              rest \in SeqsUpTo(ListingNodes, MaxListingNodes) }
    \cup { Some(El("div", {}, <<TitleOk, info, TopDocHello>>)) : info \in InfoNodes }

InitDoc ==
    /\ input \in Pages
    /\ InitCommon

SpecDoc == InitDoc /\ [][NextDoc]_vars

(***************************************************************************)
(* The docblock segmenters on their own: a div.docblock with at most       *)
(* MaxBlockKids children drawn from headings, look-alikes of headings,     *)
(* blocks, malformed blocks and a text node; and a div that is no docblock.*)
(***************************************************************************)
ListOk == El("ul", {}, <<El("li", {}, <<TextNode("i")>>)>>)
ListMixed == El("ul", {}, <<El("li", {}, <<TextNode("i")>>), TextNode(" ")>>)
ListOfDiv == El("ol", {}, <<El("div", {}, <<TextNode("x")>>), El("li", {}, <<TextNode("j")>>)>>)
CodeOk == El("div", {"example-wrap"}, <<El("pre", {}, <<TextNode("c")>>)>>)
CodeNoPre == El("div", {"example-wrap"}, <<>>)
BlockNodes ==
    { El("h2", {}, <<TextNode("A")>>),
      El("h3", {}, <<TextNode("B")>>),
      El("h6", {}, <<>>),
      El("h1", {}, <<TextNode("T")>>),
      El("h", {}, <<>>),
      El("hr", {}, <<>>),
      El("h2-x", {}, <<TextNode("X")>>),
      El("p", {}, <<TextNode("x")>>),
      ListOk, ListMixed, ListOfDiv, CodeOk, CodeNoPre,
      TextNode(" ") }
DocBlocks ==
    { El("div", {"docblock"}, kids) : kids \in SeqsUpTo(BlockNodes, MaxBlockKids) }
    \cup { El("div", {}, <<El("p", {}, <<TextNode("x")>>)>>), TextNode(" ") }

InitBlock ==
    /\ input \in DocBlocks
    /\ InitCommon

\* lib.rs parse_doc_block applied to the input node
LibParseDocBlock ==
    /\ pc = "start"
    /\ pc' = "lib_parse_doc_block"
    /\ out' = lib_parse_doc_block(input).value
    /\ panicked' = lib_parse_doc_block(input).panic
    /\ UNCHANGED <<input, docLocals>>

\* header.rs parse_doc_block applied to the input node
ParseDocBlock ==
    /\ pc = "start"
    /\ pc' = "parse_doc_block"
    /\ out' = parse_doc_block(input).value
    /\ panicked' = parse_doc_block(input).panic
    /\ UNCHANGED <<input, docLocals>>

NextBlock == LibParseDocBlock \/ ParseDocBlock

SpecBlock == InitBlock /\ [][NextBlock]_vars

(***************************************************************************)
(* The table extractors on their own.  A div.item-table has at most        *)
(* MaxCells children drawn from rows, left cells, right cells and a text   *)
(* node; a block table has a tbody of at most MaxRows children drawn from  *)
(* tr shapes and a text node.                                              *)
(***************************************************************************)
NameA == El("a", {}, <<TextNode("A")>>)
LeftA == El("div", {"item-left"}, <<NameA>>)
LeftB == El("div", {"item-left"}, <<TextNode("B")>>)
LeftEmpty == El("div", {"item-left"}, <<>>)
RightS == El("div", {"item-right"}, <<TextNode("s")>>)
RowFull == El("div", {"item-row"}, <<LeftA, RightS>>)
RowNoRight == El("div", {"item-row"}, <<LeftA>>)
LeftUnstable ==
    El("div", {"item-left"}, <<NameA, El("span", {"unstable"}, <<TextNode("u")>>)>>)
\* one div carrying the classes of two roles
LeftRight == El("div", {"item-left", "item-right"}, <<TextNode("d")>>)
RowLeft == El("div", {"item-row", "item-left"}, <<LeftA, RightS>>)
CellNodes ==
    { RowFull, RowNoRight, LeftA, LeftB, LeftEmpty, LeftUnstable, RightS,
      LeftRight, RowLeft, TextNode(" ") }
\* the children of a left cell: a name, markers of the three categories (two
\* of them of the same category) and a text node, at most MaxLeftKids of them
LeftKidNodes ==
    { NameA,
      El("span", {"unstable"}, <<TextNode("u1")>>),
      El("span", {"unstable"}, <<TextNode("u2")>>),
      El("span", {"portability"}, <<TextNode("p")>>),
      El("span", {"deprecated"}, <<TextNode("d")>>),
      TextNode(" ") }
LeftKids == SeqsUpTo(LeftKidNodes, MaxLeftKids)
ItemTables ==
    { El("div", {"item-table"}, kids) : kids \in SeqsUpTo(CellNodes, MaxCells) }
    \cup { El("div", {"item-table"}, <<El("div", {"item-left"}, kids), RightS>>) :
              kids \in LeftKids }
    \cup { El("div", {"item-table"},
              <<El("div", {"item-row"}, <<El("div", {"item-left"}, kids), RightS>>)>>) :
              kids \in LeftKids }

TdS == El("td", {}, <<TextNode("s")>>)
TrFull == El("tr", {}, <<El("td", {}, <<NameA>>), TdS>>)
TrNoRight == El("tr", {}, <<El("td", {}, <<TextNode("B")>>)>>)
TrRightTh ==
    El("tr", {}, <<El("td", {}, <<TextNode("C")>>), El("th", {}, <<TextNode("h")>>)>>)
TrEmptyLeft == El("tr", {}, <<El("td", {}, <<>>), TdS>>)
TrLeftTh == El("tr", {}, <<El("th", {}, <<TextNode("x")>>), TdS>>)
TrEmpty == El("tr", {}, <<>>)
RowNodes ==
    { TrFull, TrNoRight, TrRightTh, TrEmptyLeft, TrLeftTh, TrEmpty, TextNode(" ") }
BlockStyle == << <<"", "style", "display: block;">> >>
BlockTables ==
    { Element("table", {}, BlockStyle, <<El("tbody", {}, rows)>>) :
          rows \in SeqsUpTo(RowNodes, MaxRows) }
    \cup { Element("table", {}, BlockStyle,
               <<El("tbody", {}, <<El("tr", {}, <<El("td", {}, kids), TdS>>)>>)>>) :
               kids \in LeftKids }
    \cup { Element("table", {}, <<>>, <<El("tbody", {}, <<TrFull>>)>>),
           Element("table", {}, BlockStyle, <<TrFull>>),
           Element("table", {}, BlockStyle, <<>>) }

InitTable ==
    /\ input \in ItemTables \cup BlockTables
    /\ InitCommon

\* section/table.rs parse_item_table applied to the input node
ParseItemTable ==
    /\ pc = "start"
    /\ pc' = "parse_item_table"
    /\ out' = parse_item_table(input)
    /\ UNCHANGED <<input, panicked, docLocals>>

\* section/table.rs parse_block_table applied to the input node
ParseBlockTable ==
    /\ pc = "start"
    /\ pc' = "parse_block_table"
    /\ out' = parse_block_table(input)
    /\ UNCHANGED <<input, panicked, docLocals>>

NextTable == ParseItemTable \/ ParseBlockTable

SpecTable == InitTable /\ [][NextTable]_vars

(***************************************************************************)
(* What the claims about token streams read.                               *)
(***************************************************************************)
\* the number of tokens of the given kind among the first i tokens
CountParts(tokens, part, i) ==
    Cardinality({ j \in 1..i : tokens[j].part = part })
\* the number of styles open after the first i tokens
OpenDepth(tokens, i) ==
    CountParts(tokens, "BeginStyle", i) - CountParts(tokens, "EndStyle", i)
\* no prefix closes more styles than it opened, and the whole stream closes all
WellNested(tokens) ==
    /\ \A i \in 0..Len(tokens) : OpenDepth(tokens, i) >= 0
    /\ OpenDepth(tokens, Len(tokens)) = 0
RECURSIVE OpenedFrom(_, _)
\* the opened styles in stream order, each with the number of styles open around it
OpenedFrom(tokens, i) ==
    IF i > Len(tokens) THEN <<>>
    ELSE (IF tokens[i].part = "BeginStyle"
          THEN << <<tokens[i].style, OpenDepth(tokens, i - 1)>> >> ELSE <<>>)
         \o OpenedFrom(tokens, i + 1)

StyleTags == {"a", "strong", "em", "u", "del", "code"}
StyleOfTag(node) ==
    CASE node.name = "a" -> Link(attr(node, "href"))
      [] node.name = "strong" -> Bold
      [] node.name = "em" -> Italic
      [] node.name = "u" -> Underline
      [] node.name = "del" -> Strikethrough
      [] node.name = "code" -> Monospaced
RECURSIVE SourceStyles(_, _), SourceStylesOfKids(_, _, _)
\* the style tags of the source in document order, each with the number of style
\* tags around it; span and p are looked through, nothing else is entered
SourceStyles(node, depth) ==
    IF as_element(node) /\ node.name \in StyleTags
    THEN << <<StyleOfTag(node), depth>> >>
         \o SourceStylesOfKids(node.children, 1, depth + 1)
    ELSE IF as_element(node) /\ node.name \in {"span", "p"}
    THEN SourceStylesOfKids(node.children, 1, depth)
    ELSE <<>>
SourceStylesOfKids(kids, i, depth) ==
    IF i > Len(kids) THEN <<>>
    ELSE SourceStyles(kids[i], depth) \o SourceStylesOfKids(kids, i + 1, depth)

TextOps == {"lib_parse_text_inside", "parse_text_inside", "parse_text_outside"}

\* C1: the token stream of the text-run extractor, in inside and in outside mode,
\* is well nested: no prefix has more EndStyle than BeginStyle tokens, the totals
\* are equal, and the styles are opened in the order and at the nesting depth of
\* the source's a/strong/em/u/del/code tags.
C1_Balance ==
    pc \in TextOps =>
        LET tokens == Unwrap(out) IN
        /\ WellNested(tokens)
        /\ OpenedFrom(tokens, 1) =
              (IF pc = "parse_text_outside"
               THEN SourceStyles(input, 0)
               ELSE SourceStylesOfKids(input.children, 1, 0))
\* a style opened inside another style, in inside mode
C1_Witness ==
    /\ pc = "parse_text_inside"
    /\ \E i \in 1..Len(Unwrap(out)) :
          /\ Unwrap(out)[i].part = "BeginStyle"
          /\ OpenDepth(Unwrap(out), i - 1) = 1

(***************************************************************************)
(* What the claims about parse_document read.                              *)
(***************************************************************************)
\* the children of #main, for a page that has one
MainKids == Unwrap(input).children
\* parse_document has taken a first child of #main
HasFirstChild == pc /= "start" /\ IsSome(input) /\ Len(MainKids) > 0
IsTitleElement(node) ==
    as_element(node) /\ node.name = "h1" /\ has_class(node, "fqn")
\* the indices of the children of node that are span elements of the class
SpanChildren(node, class) ==
    { i \in 1..Len(node.children) :
        /\ as_element(node.children[i])
        /\ node.children[i].name = "span"
        /\ has_class(node.children[i], class) }
FirstSpanChild(node, class) ==
    node.children[CHOOSE i \in SpanChildren(node, class) :
                      \A j \in SpanChildren(node, class) : i <= j]
RECURSIVE PlainText(_), PlainTextOf(_, _)
\* the text of a subtree: its text nodes, concatenated in document order
PlainText(node) ==
    IF node.kind = "text" THEN node.text ELSE PlainTextOf(node.children, 1)
PlainTextOf(kids, i) ==
    IF i > Len(kids) THEN "" ELSE PlainText(kids[i]) \o PlainTextOf(kids, i + 1)
\* the sibling after the node at an Option of index, if there is one
SiblingAfter(kids, maybe_index) ==
    IF IsSome(maybe_index) /\ Unwrap(maybe_index) < Len(kids)
    THEN Some(Unwrap(maybe_index) + 1) ELSE None

\* C2: parse_document ends with a Document or with an absent result and never
\* with a panic, whatever the element names inside a docblock are.
C2_NoPanic ==
    /\ ~panicked
    /\ pc = "done" => (IsNone(out) \/ IsSome(fqn))

\* C3: when the h1.fqn title element has no in-band span child, or no
\* out-of-band span child, title extraction fails and parse_document returns
\* absent, whatever the remaining children of #main are.
C3_MissingTitleSpan ==
    (/\ HasFirstChild
     /\ IsTitleElement(MainKids[1])
     /\ \/ SpanChildren(MainKids[1], "in-band") = {}
        \/ SpanChildren(MainKids[1], "out-of-band") = {})
    => /\ pc = "done"
       /\ IsNone(fqn)
       /\ IsNone(out)
       /\ ~panicked
\* a title without its out-of-band span, in front of a well-formed top-doc
C3_Witness ==
    /\ pc = "done"
    /\ IsSome(input)
    /\ Len(MainKids) = 2
    /\ MainKids[1] = TitleNoOutOfBand
    /\ MainKids[2] = TopDocHello
    /\ IsNone(out)

\* C4: when the h1.fqn element has an in-band span child and an out-of-band
\* span child, in either order, title extraction succeeds whatever the
\* out-of-band span contains: the title is the text runs of the in-band span,
\* since is the plain text of the nested since span when there is one and
\* absent otherwise.
C4_TitleWithBothSpans ==
    (/\ HasFirstChild
     /\ IsTitleElement(MainKids[1])
     /\ SpanChildren(MainKids[1], "in-band") /= {}
     /\ SpanChildren(MainKids[1], "out-of-band") /= {})
    => /\ IsSome(fqn)
       /\ Unwrap(fqn).title =
            lib_parse_text_inside(FirstSpanChild(MainKids[1], "in-band"))
       /\ LET out_of_band == FirstSpanChild(MainKids[1], "out-of-band") IN
          Unwrap(fqn).since =
            (IF SpanChildren(out_of_band, "since") = {} THEN None
             ELSE Some(PlainText(FirstSpanChild(out_of_band, "since"))))

\* C5: the cursor over the children of #main advances past a node exactly when
\* the slot probed on that node matched it: after a declaration (an item-info)
\* was recognised the next slot probes the following sibling, and after the
\* recogniser declined the next slot probes the same node again.
C5_CursorAdvance ==
    /\ (pc \in {"top_doc", "done"} /\ IsSome(fqn)) =>
            maybe_item_info =
                (IF IsSome(declaration) THEN SiblingAfter(MainKids, maybe_decl)
                 ELSE maybe_decl)
    /\ (pc = "done" /\ IsSome(fqn)) =>
            maybe_top_doc =
                (IF IsSome(item_info) THEN SiblingAfter(MainKids, maybe_item_info)
                 ELSE maybe_item_info)

\* the slot contents a page can carry after its title, present slots in order
DeclSlots == { <<>>, <<DeclDiv>>, <<BarePre>> }
InfoSlots == { <<>>, <<InfoUnstable>> }
TopDocSlots == { <<>>, <<TopDocHello>> }
ValidTitles == { TitleOk, TitleSince, TitleSrcLink }

\* C6: for a page whose first child of #main is a valid title, parse_document
\* returns a Document for each of the eight combinations of presence or absence
\* of the declaration, item-info and top-description slots; an absent
\* declaration is none, absent item-info no disclosures, an absent top
\* description an empty section list.
C6_AnySubsetOfSlots ==
    \A decl \in DeclSlots, info \in InfoSlots, top \in TopDocSlots :
        (/\ pc = "done"
         /\ IsSome(input)
         /\ Len(MainKids) > 0
         /\ MainKids[1] \in ValidTitles
         /\ Tail(MainKids) = decl \o info \o top)
        => /\ IsSome(out)
           /\ decl = <<>> => IsNone(Unwrap(out).declaration)
           /\ info = <<>> => /\ IsNone(Unwrap(out).stability)
                             /\ IsNone(Unwrap(out).portability)
           /\ top = <<>> => Unwrap(out).description = <<>>

IsDocBlock(node) ==
    as_element(node) /\ node.name = "div" /\ has_class(node, "docblock")

\* C7: the top-description slot accepts a details.top-doc element that wraps a
\* div.docblock and a div.docblock standing at the slot position itself, and
\* both yield the section list of that docblock.
C7_BothEncodings ==
    (/\ pc = "done"
     /\ IsSome(maybe_top_doc)
     /\ ~panicked)
    => LET node == MainKids[Unwrap(maybe_top_doc)] IN
       /\ IsDocBlock(node) =>
            /\ IsSome(out)
            /\ Unwrap(out).description =
                 Unwrap(lib_parse_doc_block(node).value).sections
       /\ (/\ as_element(node)
           /\ node.name = "details"
           /\ has_class(node, "top-doc")
           /\ Len(node.children) = 1
           /\ IsDocBlock(node.children[1])) =>
            /\ IsSome(out)
            /\ Unwrap(out).description =
                 Unwrap(lib_parse_doc_block(node.children[1]).value).sections

(***************************************************************************)
(* What the claims about the docblock segmenter read.                      *)
(***************************************************************************)
BlockOps == {"lib_parse_doc_block", "parse_doc_block"}

\* C8: in every section list the docblock segmenter produces, a section without
\* a heading occurs only at the first index (so at most once); every section
\* at a later index has a heading.
C8_HeadlessOnlyFirst ==
    (pc \in BlockOps /\ IsSome(out)) =>
        LET sections == Unwrap(out).sections IN
        \A i \in 1..Len(sections) : IsNone(sections[i].heading) => i = 1
\* a headless first section followed by a headed one that received a content
C8_Witness ==
    /\ pc = "lib_parse_doc_block"
    /\ IsSome(out)
    /\ Len(Unwrap(out).sections) = 2
    /\ IsNone(Unwrap(out).sections[1].heading)
    /\ IsSome(Unwrap(out).sections[2].heading)
    /\ Len(Unwrap(out).sections[2].contents) = 1

(***************************************************************************)
(* What the claims about the table extractors read.                        *)
(***************************************************************************)
IsDiv(node, class) == as_element(node) /\ node.name = "div" /\ has_class(node, class)
IsTag(node, name) == as_element(node) /\ node.name = name

\* the child at i is a div.item-left whose next sibling is missing or is not a
\* div.item-right
UnmatchedLeft(kids, i) ==
    /\ IsDiv(kids[i], "item-left")
    /\ \/ i = Len(kids)
       \/ ~IsDiv(kids[i + 1], "item-right")
\* the roles a child of the table carries as classes
RolesOf(node) ==
    IF as_element(node)
    THEN node.classes \cap {"item-row", "item-left", "item-right"} ELSE {}

\* C9 as stated: in the div encoding, when a child of the div.item-table is a
\* div.item-left whose next sibling is missing or is not a div.item-right,
\* parse_item_table returns absent for the whole table, never the rows parsed
\* before that child.
C9_UnmatchedLeftFailsTable ==
    (/\ pc = "parse_item_table"
     /\ IsDiv(input, "item-table")
     /\ \E i \in 1..Len(input.children) : UnmatchedLeft(input.children, i))
    => IsNone(out)
\* C9 amended: the same, for a table none of whose children carries more than
\* one of the classes item-row, item-left, item-right.
C9_UnmatchedLeftOfSingleRole ==
    (/\ pc = "parse_item_table"
     /\ IsDiv(input, "item-table")
     /\ \A i \in 1..Len(input.children) : Cardinality(RolesOf(input.children[i])) <= 1
     /\ \E i \in 1..Len(input.children) : UnmatchedLeft(input.children, i))
    => IsNone(out)
\* a complete pair in front of an item-left without a right
C9_Witness ==
    /\ pc = "parse_item_table"
    /\ input.children = <<LeftB, RightS, LeftA>>
    /\ IsNone(out)

\* the tr has its left cell: a first child td that holds the name as first child
HasLeftCell(tr) ==
    /\ IsTag(tr, "tr")
    /\ Len(tr.children) >= 1
    /\ IsTag(tr.children[1], "td")
    /\ Len(tr.children[1].children) >= 1
HasRightCell(tr) == Len(tr.children) >= 2 /\ IsTag(tr.children[2], "td")

ClassifiedBody(node) ==
    \/ IsSome(parse_item_table(node))
    \/ IsSome(parse_block_table(node))
    \/ IsSome(parse_struct_field_or_variant(node))
    \/ IsSome(parse_impl_heading(node))
    \/ IsSome(parse_implementor_or_empty(node).value)
    \/ IsSome(parse_impl_div(node).value)
\* the listing headings after the nodes the header took whose next sibling
\* is a classified body
ClassifiedHeadings(kids, taken) ==
    { i \in (taken + 1)..Len(kids) :
        /\ is_item_header(kids[i])
        /\ i < Len(kids)
        /\ ClassifiedBody(kids[i + 1]) }
\* the number of listings a Document carries
ListingCount(doc) == IF "items" \in DOMAIN doc THEN Len(doc.items) ELSE 0

\* C11: the Document parse_document returns carries as many listings as
\* there are listing headings, among the siblings after the header slots,
\* whose following body is a table, a field or variant, an impl heading, an
\* implementor toggle or a self-contained impl div.
C11_ListingCount ==
    (pc = "done" /\ IsSome(out))
    => ListingCount(Unwrap(out)) = Cardinality(ClassifiedHeadings(MainKids, children))

(***************************************************************************)
(* What the claim about dropped subtrees reads.                            *)
(***************************************************************************)
\* the elements the extractor looks through
TransparentTags == {"a", "strong", "em", "u", "del", "code", "span", "p"}
IsTransparent(node) == as_element(node) /\ node.name \in TransparentTags
RECURSIVE DocumentOrder(_, _, _)
\* the nodes of kids[i..] and their descendants in document order, each with
\* whether all its ancestors in the forest are transparent
DocumentOrder(kids, i, open) ==
    IF i > Len(kids) THEN <<>>
    ELSE <<[node |-> kids[i], open |-> open]>>
         \o DocumentOrder(kids[i].children, 1, open /\ IsTransparent(kids[i]))
         \o DocumentOrder(kids, i + 1, open)
IsNewline(node) ==
    /\ as_element(node)
    /\ \/ node.name = "br"
       \/ node.name = "span" /\ has_class(node, "fmt-newline")
Emits(entry) == entry.open /\ (entry.node.kind = "text" \/ IsNewline(entry.node))
\* the texts the source gives, in document order
SourceTexts(kids) ==
    LET emitting == SelectSeq(DocumentOrder(kids, 1, TRUE), Emits) IN
    [i \in 1..Len(emitting) |->
        IF emitting[i].node.kind = "text" THEN emitting[i].node.text ELSE "\n"]
IsTextPart(token) == token.part = "Text"
\* the texts of the PlainText tokens of a stream, in order
TextsOf(tokens) ==
    LET texts == SelectSeq(tokens, IsTextPart) IN
    [i \in 1..Len(texts) |-> texts[i].text]

\* C12: the PlainText tokens of the text-run extractor are, in document order,
\* the text nodes all of whose ancestors below the start node are
\* a/strong/em/u/del/code/span/p elements, verbatim, and one "\n" per br and
\* per span.fmt-newline with such ancestors; nothing under another element
\* (or under br) gives a token.  In outside mode the start node itself is the
\* first node classified.
C12_DroppedSubtrees ==
    pc \in TextOps =>
        TextsOf(Unwrap(out)) =
            (IF pc = "parse_text_outside" THEN SourceTexts(<<input>>)
             ELSE SourceTexts(input.children))
\* a text node under a div is dropped, in inside mode
C12_Witness ==
    /\ pc = "parse_text_inside"
    /\ Len(input.children) = 1
    /\ as_element(input.children[1])
    /\ input.children[1].name = "div"
    /\ Len(input.children[1].children) = 1
    /\ input.children[1].children[1].kind = "text"
    /\ Unwrap(out) = <<>>

(***************************************************************************)
(* The disclosure recognisers on their own.  The input carries one of the  *)
(* class lists below; its first child is a details element of at most      *)
(* MaxDetailKids children, a text node or a span, and a text node may      *)
(* follow it.                                                              *)
(***************************************************************************)
SummaryS == El("summary", {}, <<TextNode("S")>>)
DetailNodes ==
    { SummaryS, TextNode("d"), El("em", {}, <<TextNode("e")>>),
      El("div", {}, <<TextNode("x")>>) }
DetailsWidgets == { El("details", {}, kids) : kids \in SeqsUpTo(DetailNodes, MaxDetailKids) }
FirstKids == DetailsWidgets \cup { TextNode("flat"), El("span", {}, <<TextNode("f")>>) }
DisclosureClasses ==
    { {"unstable"}, {"portability"}, {"deprecated"}, {"stab", "unstable"},
      {"stab", "deprecated", "portability"}, {} }
DisclosureKids ==
    { <<>> } \cup { <<first>> : first \in FirstKids }
             \cup { <<first, TextNode("after")>> : first \in FirstKids }
Disclosures ==
    { El("div", classes, kids) : classes \in DisclosureClasses, kids \in DisclosureKids }
    \cup { TextNode("unstable") }

InitDisclosure ==
    /\ input \in Disclosures
    /\ InitCommon

\* atom.rs parse_unstable applied to the input node
ParseUnstable ==
    /\ pc = "start"
    /\ pc' = "parse_unstable"
    /\ out' = parse_unstable(input)
    /\ UNCHANGED <<input, panicked, docLocals>>

\* atom.rs parse_portability applied to the input node
ParsePortability ==
    /\ pc = "start"
    /\ pc' = "parse_portability"
    /\ out' = parse_portability(input)
    /\ UNCHANGED <<input, panicked, docLocals>>

\* atom.rs parse_deprecated applied to the input node
ParseDeprecated ==
    /\ pc = "start"
    /\ pc' = "parse_deprecated"
    /\ out' = parse_deprecated(input)
    /\ UNCHANGED <<input, panicked, docLocals>>

NextDisclosure == ParseUnstable \/ ParsePortability \/ ParseDeprecated

SpecDisclosure == InitDisclosure /\ [][NextDisclosure]_vars

(***************************************************************************)
(* What the claim about disclosures reads.                                 *)
(***************************************************************************)
DisclosureOps == {"parse_unstable", "parse_portability", "parse_deprecated"}
\* the class each recogniser asks for
ClassOfOp(op) ==
    CASE op = "parse_unstable" -> "unstable"
      [] op = "parse_portability" -> "portability"
      [] op = "parse_deprecated" -> "deprecated"
\* the node's first child is a details element whose first child is a summary
IsWidget(node) ==
    /\ Len(node.children) >= 1
    /\ IsTag(node.children[1], "details")
    /\ Len(node.children[1].children) >= 1
    /\ IsTag(node.children[1].children[1], "summary")
RECURSIVE RunsOfEach(_, _)
\* the text runs of kids[i..], each node in outside mode, one after the other
RunsOfEach(kids, i) ==
    IF i > Len(kids) THEN <<>>
    ELSE parse_text_outside(kids[i]) \o RunsOfEach(kids, i + 1)

\* C13: for a node carrying the class of a disclosure, the detail is present
\* exactly when the node's first child is a details element whose first child
\* is a summary element; then summary is the text runs inside that summary
\* and detail the text runs of the remaining children of the details, in
\* order; otherwise summary is the text runs inside the node and detail is
\* absent.
C13_DetailsOrFlat ==
    (/\ pc \in DisclosureOps
     /\ as_element(input)
     /\ has_class(input, ClassOfOp(pc)))
    => /\ IsSome(out)
       /\ IsSome(Unwrap(out).detail) <=> IsWidget(input)
       /\ IsWidget(input) =>
            /\ Unwrap(out).summary = parse_text_inside(input.children[1].children[1])
            /\ Unwrap(Unwrap(out).detail) = RunsOfEach(input.children[1].children, 2)
       /\ ~IsWidget(input) => Unwrap(out).summary = parse_text_inside(input)
\* a widget whose detail has a styled run after a plain one
C13_Witness ==
    /\ pc = "parse_deprecated"
    /\ IsSome(out)
    /\ IsWidget(input)
    /\ Unwrap(out).summary = <<Text("S")>>
    /\ Unwrap(out).detail = Some(<<Text("d"), BeginStyle(Italic), Text("e"), EndStyle>>)

(***************************************************************************)
(* What the claim about the children of a left cell reads.                 *)
(***************************************************************************)
\* the input is a table of one row in one of the three shapes
IsPairTable(node) ==
    /\ IsDiv(node, "item-table") /\ Len(node.children) = 2
    /\ IsDiv(node.children[1], "item-left") /\ ~IsDiv(node.children[1], "item-row")
    /\ IsDiv(node.children[2], "item-right")
IsRowTable(node) ==
    /\ IsDiv(node, "item-table") /\ Len(node.children) = 1
    /\ IsDiv(node.children[1], "item-row") /\ Len(node.children[1].children) = 2
    /\ IsDiv(node.children[1].children[1], "item-left")
    /\ IsDiv(node.children[1].children[2], "item-right")
IsTrTable(node) ==
    /\ IsTag(node, "table") /\ attr(node, "style") = Some("display: block;")
    /\ Len(node.children) = 1 /\ IsTag(node.children[1], "tbody")
    /\ Len(node.children[1].children) = 1
    /\ IsTag(node.children[1].children[1], "tr")
    /\ Len(node.children[1].children[1].children) >= 1
    /\ IsTag(node.children[1].children[1].children[1], "td")
IsOneRowTable(node) == IsPairTable(node) \/ IsRowTable(node) \/ IsTrTable(node)
\* the left cell of a table of one row
LeftCellOf(node) ==
    IF IsPairTable(node) THEN node.children[1]
    ELSE IF IsRowTable(node) THEN node.children[1].children[1]
    ELSE node.children[1].children[1].children[1]
\* the children after the first that carry the class
Carriers(kids, class) ==
    { j \in 2..Len(kids) : as_element(kids[j]) /\ has_class(kids[j], class) }
\* the disclosure of the first of them, if there is one
FirstCarrier(kids, class) ==
    IF Carriers(kids, class) = {} THEN None
    ELSE parse_disclosure(
             kids[CHOOSE j \in Carriers(kids, class) :
                      \A k \in Carriers(kids, class) : j <= k], class)
TableOps == {"parse_item_table", "parse_block_table"}

\* C14: in both table encodings the first child of the left cell is the name,
\* in outside mode, and is never examined as a disclosure; for each category
\* the row's disclosure is that of the first of the remaining children that
\* carries the category's class, and later children of the class change
\* nothing.
C14_FirstMatchPerCategory ==
    (/\ pc \in TableOps
     /\ IsOneRowTable(input)
     /\ (pc = "parse_block_table" <=> IsTrTable(input))
     /\ Len(LeftCellOf(input).children) >= 1)
    => LET kids == LeftCellOf(input).children IN
       /\ IsSome(out)
       /\ Len(Unwrap(out)) = 1
       /\ Unwrap(out)[1].item = parse_text_outside(kids[1])
       /\ Unwrap(out)[1].stability = FirstCarrier(kids, "unstable")
       /\ Unwrap(out)[1].portability = FirstCarrier(kids, "portability")
       /\ Unwrap(out)[1].deprecation = FirstCarrier(kids, "deprecated")
\* a first child that carries a class, then two children of one category
C14_Witness ==
    /\ pc = "parse_block_table"
    /\ IsTrTable(input)
    /\ IsSome(out)
    /\ LET kids == LeftCellOf(input).children IN
        /\ Len(kids) = 3
        /\ has_class(kids[1], "unstable")
        /\ kids[2] = El("span", {"unstable"}, <<TextNode("u2")>>)
        /\ kids[3] = El("span", {"unstable"}, <<TextNode("u1")>>)
    /\ Unwrap(out)[1].item = <<Text("u1")>>
    /\ Unwrap(out)[1].stability = Some(Details(<<Text("u2")>>, None))

(***************************************************************************)
(* What the claim about the header's item-info reads.                      *)
(***************************************************************************)
\* the children that carry the class
InfoCarriers(kids, class) ==
    { j \in 1..Len(kids) : as_element(kids[j]) /\ has_class(kids[j], class) }
\* the summary of the disclosure of the first of them, if there is one
FirstInfoSummary(kids, class) ==
    IF InfoCarriers(kids, class) = {} THEN None
    ELSE Some(Unwrap(parse_disclosure(
                  kids[CHOOSE j \in InfoCarriers(kids, class) :
                           \A k \in InfoCarriers(kids, class) : j <= k], class)).summary)
\* what a Document reports for a category: absent when it has no such field
Reported(doc, field) == IF field \in DOMAIN doc THEN doc[field] ELSE None

\* C15: when the item-info slot of the header holds a div.item-info, the
\* Document reports, for each of stability, portability and deprecation, the
\* disclosure of the first child in document order that carries the class
\* unstable, portability or deprecated, and none when no child carries it.
C15_HeaderFirstMatch ==
    (/\ pc = "done"
     /\ IsSome(out)
     /\ IsSome(maybe_item_info)
     /\ IsDiv(node_at(MainKids, maybe_item_info), "item-info"))
    => LET kids == node_at(MainKids, maybe_item_info).children IN
       /\ Reported(Unwrap(out), "stability") = FirstInfoSummary(kids, "unstable")
       /\ Reported(Unwrap(out), "portability") = FirstInfoSummary(kids, "portability")
       /\ Reported(Unwrap(out), "deprecation") = FirstInfoSummary(kids, "deprecated")

(***************************************************************************)
(* What the claim about lists with a child that is not an li reads.        *)
(***************************************************************************)
\* a ul or ol with a child that is not an li element
IsBrokenList(node) ==
    /\ as_element(node)
    /\ node.name \in {"ul", "ol"}
    /\ \E j \in 1..Len(node.children) : ~IsTag(node.children[j], "li")
NotBrokenList(node) == ~IsBrokenList(node)
\* the same container without those lists
WithoutBrokenLists(node) ==
    [node EXCEPT !.children = SelectSeq(node.children, NotBrokenList)]
HasBrokenList(node) ==
    IsDocBlock(node) /\ \E i \in 1..Len(node.children) : IsBrokenList(node.children[i])

ItemHeadingA == El("h4", {}, <<El("code", {}, <<TextNode("a")>>)>>)
ItemHeadingB == El("h4", {}, <<El("code", {}, <<TextNode("b")>>)>>)
ItemInfoUP ==
    El("div", {"item-info"},
       <<El("span", {"unstable"}, <<TextNode("u")>>),
         El("span", {"portability"}, <<TextNode("p")>>)>>)
ItemInfoD == El("div", {"item-info"}, <<El("span", {"deprecated"}, <<TextNode("d")>>)>>)
ItemInfoU2 == El("div", {"item-info"}, <<El("span", {"unstable"}, <<TextNode("u2")>>)>>)
SrcLink == El("div", {"has-srclink"}, <<El("h4", {"code-header"}, <<TextNode("m")>>)>>)
ToggleItem == El("details", {}, <<El("summary", {}, <<SrcLink>>), DocBlockHello>>)
ItemKidNodes ==
    { ItemHeadingA, ItemHeadingB, ItemInfoUP, ItemInfoD, ItemInfoU2, DocBlockHello,
      SrcLink, ToggleItem, TextNode(" ") }
ImplItemsNodes ==
    { El("div", {"impl-items"}, kids) : kids \in SeqsUpTo(ItemKidNodes, MaxItemKids) }

ImplHeadingX == El("h3", {"impl"}, <<El("code", {"in-band"}, <<TextNode("X")>>)>>)
ImplHeadingY == El("h3", {"impl"}, <<El("code", {"in-band"}, <<TextNode("Y")>>)>>)
ItemsA == El("div", {"impl-items"}, <<ItemHeadingA>>)
ItemsB == El("div", {"impl-items"}, <<ItemHeadingB>>)
ItemsOddDoc ==
    El("div", {"impl-items"},
       <<ItemHeadingA, El("div", {"docblock"}, <<El("h", {}, <<>>)>>)>>)
EmptyImpl == El("div", {"impl"}, <<El("h3", {"in-band"}, <<TextNode("E")>>)>>)
ImplKidNodes ==
    { ImplHeadingX, ImplHeadingY, ItemsA, ItemsB, EmptyImpl,
      El("p", {}, <<TextNode("x")>>), TextNode(" ") }
ImplDivs ==
    { El("div", {}, kids) : kids \in SeqsUpTo(ImplKidNodes, MaxImplKids) }
    \cup { El("div", {}, <<ImplHeadingX, ItemsOddDoc>>),
           El("section", {}, <<ImplHeadingX, ItemsA>>) }

SummaryOfType == El("summary", {}, <<SrcLink>>)
ToggleBodies == ImplItemsNodes \cup { ItemsOddDoc, TextNode(" "), El("p", {}, <<>>) }
Implementors ==
    { El("details", {"implementors-toggle"}, <<SummaryOfType, body>>) :
          body \in ToggleBodies }
    \cup { El("details", {"implementors-toggle"}, kids) :
             kids \in { <<>>, <<SummaryOfType>>, <<ItemsA>>, <<TextNode(" "), ItemsA>>,
                        <<El("summary", {}, <<>>), ItemsA>>,
                        <<El("summary", {}, <<TextNode("T")>>), ItemsA>>,
                        <<El("div", {}, <<SrcLink>>), ItemsA>>,
                        <<SummaryOfType, ItemsA, ItemsB>> } }
    \cup { El("details", {}, <<SummaryOfType, ItemsA>>),
           El("div", {"implementors-toggle"}, <<SummaryOfType, ItemsA>>),
           EmptyImpl,
           El("div", {"impl"}, <<TextNode(" "), El("h3", {"in-band"}, <<TextNode("E")>>)>>),
           El("div", {"impl"}, <<El("h3", {}, <<TextNode("E")>>)>>),
           El("div", {"impl"}, <<>>),
           El("span", {"impl"}, <<El("h3", {"in-band"}, <<TextNode("E")>>)>>),
           TextNode("E") }

InitImpl ==
    /\ input \in ImplItemsNodes \cup ImplDivs \cup Implementors
    /\ InitCommon

\* item/impls.rs parse_impl_items applied to the input node
ParseImplItems ==
    /\ pc = "start"
    /\ pc' = "parse_impl_items"
    /\ \E result \in {parse_impl_items(input)} :
           /\ out' = result.value
           /\ panicked' = result.panic
    /\ UNCHANGED <<input, docLocals>>

\* item/impls.rs parse_impl_div applied to the input node
ParseImplDiv ==
    /\ pc = "start"
    /\ pc' = "parse_impl_div"
    /\ \E result \in {parse_impl_div(input)} :
           /\ out' = result.value
           /\ panicked' = result.panic
    /\ UNCHANGED <<input, docLocals>>

\* item/impls.rs parse_implementor_or_empty applied to the input node
ParseImplementorOrEmpty ==
    /\ pc = "start"
    /\ pc' = "parse_implementor_or_empty"
    /\ \E result \in {parse_implementor_or_empty(input)} :
           /\ out' = result.value
           /\ panicked' = result.panic
    /\ UNCHANGED <<input, docLocals>>

NextImpl == ParseImplItems \/ ParseImplDiv \/ ParseImplementorOrEmpty

SpecImpl == InitImpl /\ [][NextImpl]_vars

(***************************************************************************)
(* What the claims about impls read.                                       *)
(***************************************************************************)
IsImplHeading(node) == IsSome(parse_impl_heading(node))

\* C17: parse_impl_div accepts a bare div only when its children alternate
\* impl-heading, impl-items, ...: it declines a div with no children, a div
\* whose first child is not an impl heading, and a div with two consecutive
\* impl headings; on acceptance each Impl has the items of the impl-items
\* node right after its heading.
C17_StrictAlternation ==
    (pc = "parse_impl_div" /\ IsTag(input, "div") /\ IsSome(out))
    => LET kids == input.children IN
       /\ Len(kids) > 0
       /\ IsImplHeading(kids[1])
       /\ \A i \in 1..(Len(kids) - 1) : ~(IsImplHeading(kids[i]) /\ IsImplHeading(kids[i + 1]))
       /\ \A i \in 1..Len(Unwrap(out)) :
             /\ 2 * i <= Len(kids)
             /\ Some(Unwrap(out)[i].items) = parse_impl_items(kids[2 * i]).value

Categories == {"stability", "portability", "deprecation"}

\* C18: inside an impl-items div, when two div.item-info children follow the
\* same Item, the Item keeps for each category the value of the later
\* item-info when that one carries the category and the value of the earlier
\* one otherwise.
C18_PerCategoryAttach ==
    (/\ pc = "parse_impl_items"
     /\ IsSome(out)
     /\ Len(input.children) = 3
     /\ IsSome(parse_item_heading(input.children[1]))
     /\ IsSome(parse_item_info(input.children[2]))
     /\ IsSome(parse_item_info(input.children[3])))
    => LET earlier == Unwrap(parse_item_info(input.children[2]))
           later == Unwrap(parse_item_info(input.children[3]))
       IN /\ Len(Unwrap(out)) = 1
          /\ \A c \in Categories :
                Unwrap(out)[1].info[c] = OrOpt(later[c], earlier[c])

(***************************************************************************)
(* What the claim about where sections open reads.                         *)
(***************************************************************************)
HeadingTags == {"h2", "h3", "h4", "h5", "h6"}
IsHeadingKid(node) == as_element(node) /\ node.name \in HeadingTags
LevelOfTag(name) ==
    CASE name = "h2" -> 2 [] name = "h3" -> 3 [] name = "h4" -> 4
      [] name = "h5" -> 5 [] name = "h6" -> 6
HasHeading(section) == IsSome(section.heading)
\* the levels of the h2..h6 children, in document order
HeadingLevels(kids) ==
    LET headings == SelectSeq(kids, IsHeadingKid) IN
    [i \in 1..Len(headings) |-> LevelOfTag(headings[i].name)]
\* the depths of the sections that have a heading, in order
HeadedDepths(sections) ==
    LET headed == SelectSeq(sections, HasHeading) IN
    [i \in 1..Len(headed) |-> headed[i].depth]
RECURSIVE ContentCount(_, _)
\* the number of blocks in sections[i..]
ContentCount(sections, i) ==
    IF i > Len(sections) THEN 0
    ELSE Len(sections[i].contents) + ContentCount(sections, i + 1)
\* the children, other than h2..h6, that the version's block recognisers accept
RecognisedBlocks(kids, op) ==
    { j \in 1..Len(kids) :
        /\ ~IsHeadingKid(kids[j])
        /\ IF op = "lib_parse_doc_block" THEN IsSome(lib_parse_content(kids[j]))
           ELSE IsSome(parse_content(kids[j])) }

\* C19: the segmenter opens a section at each child whose tag is one of
\* h2..h6 and at no other tag, with the heading level as depth; every depth
\* is in 2..6 and a headless section has depth 2; every recognised block is
\* in a section and the other children change nothing.  (Runs that end in
\* the panic of C2 are left aside.)
C19_SectionsAtHeadings ==
    (pc \in BlockOps /\ IsDocBlock(input) /\ ~panicked)
    => /\ IsSome(out)
       /\ LET sections == Unwrap(out).sections IN
          /\ HeadedDepths(sections) = HeadingLevels(input.children)
          /\ \A i \in 1..Len(sections) :
                /\ sections[i].depth \in 2..6
                /\ IsNone(sections[i].heading) => sections[i].depth = 2
          /\ ContentCount(sections, 1) = Cardinality(RecognisedBlocks(input.children, pc))

(***************************************************************************)
(* What the claim about implementors reads.                                *)
(***************************************************************************)
\* a details.implementors-toggle whose first child is a summary that names
\* the type: the summary's first child is a has-srclink wrapper with a
\* code-header
IsToggleShape(node) ==
    /\ IsTag(node, "details")
    /\ has_class(node, "implementors-toggle")
    /\ Len(node.children) >= 1
    /\ IsTag(node.children[1], "summary")
    /\ Len(node.children[1].children) >= 1
    /\ IsSome(parse_srclink(node.children[1].children[1]))
\* the toggle has a body: its second child is an impl-items div
HasBody(node) == Len(node.children) >= 2 /\ IsDiv(node.children[2], "impl-items")
\* the h3.in-band children of an 'empty impl' placeholder
NameHeadings(node) ==
    { j \in 1..Len(node.children) :
        IsTag(node.children[j], "h3") /\ has_class(node.children[j], "in-band") }
IsPlaceholderShape(node) == IsDiv(node, "impl") /\ NameHeadings(node) /= {}
PlaceholderName(node) ==
    parse_text_inside(
        node.children[CHOOSE j \in NameHeadings(node) :
                          \A k \in NameHeadings(node) : j <= k])

\* C20: parse_implementor_or_empty returns, for a toggle whose summary names
\* the type, an Impl of that name whose items are those of the impl-items
\* body when the toggle has one and none when it has no body; for an 'empty
\* impl' placeholder an Impl of the target name with no items; for any other
\* node nothing.  The call panics only where the extraction of the body's
\* items does.
C20_ToggleThenPlaceholder ==
    pc = "parse_implementor_or_empty" =>
        /\ (IsToggleShape(input) /\ HasBody(input)) =>
              /\ panicked = parse_impl_items(input.children[2]).panic
              /\ ~panicked =>
                    out = Some(Impl(Unwrap(parse_srclink(input.children[1].children[1])),
                                    Unwrap(parse_impl_items(input.children[2]).value)))
        /\ (IsToggleShape(input) /\ ~HasBody(input)) =>
              /\ ~panicked
              /\ out = Some(Impl(Unwrap(parse_srclink(input.children[1].children[1])), <<>>))
        /\ (~IsToggleShape(input) /\ IsPlaceholderShape(input)) =>
              /\ ~panicked
              /\ out = Some(Impl(PlaceholderName(input), <<>>))
        /\ (~IsToggleShape(input) /\ ~IsPlaceholderShape(input)) =>
              /\ ~panicked
              /\ IsNone(out)
\* a toggle whose body gives two items
C20_Witness ==
    /\ pc = "parse_implementor_or_empty"
    /\ IsToggleShape(input)
    /\ HasBody(input)
    /\ IsSome(out)
    /\ Unwrap(out).target = <<Text("m")>>
    /\ Len(Unwrap(out).items) = 2

(***************************************************************************)
(* The two parse_text_inside side by side.  The inputs are the inline      *)
(* trees and the trees of inline SVG, where the parser files xlink:href    *)
(* under the XLink namespace with the local name href; an SVG a may carry  *)
(* it alone or next to a plain href, in either iteration order.            *)
(***************************************************************************)
XLink == "http://www.w3.org/1999/xlink"
ForeignElements ==
    { Element("svg", {}, <<>>, <<>>),
      Element("a", {}, <<>>, <<>>),
      Element("a", {}, << <<"", "href", "x">> >>, <<>>),
      Element("a", {}, << <<XLink, "href", "u">> >>, <<>>),
      Element("a", {}, << <<"", "href", "x">>, <<XLink, "href", "u">> >>, <<>>),
      Element("a", {}, << <<XLink, "href", "u">>, <<"", "href", "x">> >>, <<>>) }
ForeignLeaves == { TextNode("t") }
ForeignTrees ==
    UNION { TreesOfSize(n, ForeignElements, ForeignLeaves) : n \in 1..MaxNodes }

InitBoth ==
    /\ input \in InlineTrees \cup ForeignTrees
    /\ InitCommon

NextBoth == LibParseTextInside \/ ParseTextInside

SpecBoth == InitBoth /\ [][NextBoth]_vars

\* C21: the two text-run extractors are equivalent: for every DOM node,
\* parse_text_inside of lib.rs and parse_text_inside of atom.rs return the same
\* token sequence (same texts, same styles and link targets, same order).
C21_ExtractorsAgree ==
    /\ pc = "lib_parse_text_inside" => Unwrap(out) = parse_text_inside(input)
    /\ pc = "parse_text_inside" => Unwrap(out) = lib_parse_text_inside(input)

====
